---- MODULE Spec2Model ----
(***************************************************************************)
(* A model of go-charset: the Translator implementations (code-page        *)
(* decode/encode, UTF-8 passthrough, Big5 decode) and the streaming        *)
(* adapters translatingReader / translatingWriter that drive them.         *)
(* Bytes are integers 0..255, byte slices are sequences, runes are         *)
(* integers.  unicode/utf8 is modelled by what it computes.                *)
(* The package state is modelled too: the classes and the charsets         *)
(* registry with its lazily loaded catalog, and the cache of data files.   *)
(***************************************************************************)
EXTENDS Integers, Sequences, FiniteSets, TLC

VARIABLES
    tr,         \* the Translator under the reader: [kind, arg, font]
    wtr,        \* the Translator under the writer: [kind, arg, font]
    utf8lib,    \* which unicode/utf8 FullRune the build links
    input,      \* the bytes the upstream source holds
    mode,       \* how the upstream source hands out its bytes
    pos,        \* number of bytes the upstream source has handed out
    r,          \* translatingReader: [cdata, rdata, cap, err]
    w,          \* translatingWriter: [buf]
    wpos,       \* number of input bytes the caller has passed to Write
    sink,       \* bytes received by the writer's downstream io.Writer
    delivered,  \* bytes the reader has returned to its caller so far
    status,     \* last status returned to the caller (Read's err / Close)
    pending,    \* a direct caller of Translate: the bytes it must re-present
    produced,   \* a direct caller of Translate: the output it has collected
    calls,      \* the Translate calls made by the last operation
    api,        \* the version of the package: "Translator" or "Converter"
    classes,    \* classes: class name -> [from, to], "nil" for no factory
    charsets,   \* charsets: normalized name -> *Charset
    readCharsetsOnce,  \* has readCharsetsOnce.Do run readCharsets?
    catalog,    \* charsets.json: [open, err, entries]
    loads,      \* number of times readCharsets has run
    nreg,       \* number of registerClass and Register calls made
    last,       \* the last call on the registry and what it returned
    oldCatalog, \* charsets.json in the layout of the Converter API
    oldCharsets,  \* charsets of the Converter API: name -> info
    oldOnce,    \* readCharsetsOnce of the Converter API
    cacheStore, \* cacheStore: key -> value
    cacheMutex, \* the thread that holds cacheMutex, 0 when it is free
    fileReads,  \* number of times readFile has read each data file
    th          \* the threads that ask for a Translator: [pc, ...]

streamVars == <<tr, wtr, utf8lib, input, mode, pos, r, w, wpos, sink,
                delivered, status, pending, produced, calls>>

registryVars == <<api, classes, charsets, readCharsetsOnce, catalog, loads, nreg,
                  last, oldCatalog, oldCharsets, oldOnce>>

cacheVars == <<cacheStore, cacheMutex, fileReads, th>>

packageVars == <<registryVars, cacheVars>>

vars == <<streamVars, packageVars>>

\* A map without keys
EmptyMap == [k \in {} |-> k]

\* m with key k set to v
Put(m, k, v) == [x \in DOMAIN m \cup {k} |-> IF x = k THEN v ELSE m[x]]

\* last before any call on the registry
NoLast ==
    [op |-> "none", name |-> <<>>, override |-> FALSE, res |-> "", id |-> 0,
     out |-> {}, tr |-> [kind |-> "none", arg |-> "", font |-> -1]]

\* The package state of a run that uses a Translator it was handed: nothing
\* registered, nothing loaded, nothing cached.
RegistryUnused ==
    /\ api = "Translator"
    /\ classes = EmptyMap
    /\ charsets = EmptyMap
    /\ readCharsetsOnce = FALSE
    /\ catalog = [open |-> FALSE, err |-> FALSE, entries |-> {}]
    /\ loads = 0
    /\ nreg = 0
    /\ last = NoLast
    /\ oldCatalog = [open |-> FALSE, err |-> FALSE, infos |-> EmptyMap]
    /\ oldCharsets = EmptyMap
    /\ oldOnce = FALSE

CacheUnused ==
    /\ cacheStore = EmptyMap
    /\ cacheMutex = 0
    /\ fileReads = EmptyMap
    /\ th = EmptyMap

\* The streams of a run that only uses the registry or the cache
StreamUnused ==
    /\ tr = [kind |-> "none", arg |-> "", font |-> -1]
    /\ wtr = [kind |-> "none", arg |-> "", font |-> -1]
    /\ utf8lib = "internal"
    /\ input = <<>>
    /\ mode = "whole"
    /\ pos = 0
    /\ r = [cdata |-> <<>>, rdata |-> <<>>, cap |-> 0, err |-> "nil"]
    /\ w = [buf |-> <<>>]
    /\ wpos = 0
    /\ sink = <<>>
    /\ delivered = <<>>
    /\ status = "nil"
    /\ pending = <<>>
    /\ produced = <<>>
    /\ calls = <<>>

----------------------------------------------------------------------------
(* Bounds of the model *)

\* longest upstream input, in bytes
MaxLen == 3

\* largest destination buffer a caller passes to Read, and largest Write
MaxBuf == 3

\* The longest carry-over a writer over a failing downstream is followed to
MaxCarry == 4

----------------------------------------------------------------------------
(* Slices *)

Min(a, b) == IF a < b THEN a ELSE b

\* s[:n]
Take(s, n) == SubSeq(s, 1, n)

\* s[n:]
Drop(s, n) == SubSeq(s, n + 1, Len(s))

SeqsUpTo(S, n) == UNION {[1..k -> S] : k \in 0..n}

----------------------------------------------------------------------------
(* unicode/utf8 *)

RuneError == 65533

\* utf8.MaxRune and the surrogate range, which no rune may lie in
ValidRune(x) == x >= 0 /\ x <= 1114111 /\ ~(x >= 55296 /\ x <= 57343)

IsCont(c) == c >= 128 /\ c < 192

\* utf8.EncodeRune: the UTF-8 bytes of r; a surrogate or out-of-range rune
\* (a negative one too: the comparison is unsigned) is written as RuneError.
EncodeRune(rune) ==
    LET enc3(x) == <<224 + (x \div 4096), 128 + ((x \div 64) % 64), 128 + (x % 64)>>
    IN  IF rune >= 0 /\ rune <= 127 THEN <<rune>>
        ELSE IF rune >= 0 /\ rune <= 2047
             THEN <<192 + (rune \div 64), 128 + (rune % 64)>>
        ELSE IF ~ValidRune(rune) THEN enc3(RuneError)
        ELSE IF rune <= 65535 THEN enc3(rune)
        ELSE <<240 + (rune \div 262144), 128 + ((rune \div 4096) % 64),
               128 + ((rune \div 64) % 64), 128 + (rune % 64)>>

\* utf8.decodeRuneInternal: [r, size, short]
decodeRuneInternal(p) ==
    LET n == Len(p)
        bad == [r |-> RuneError, size |-> 1, short |-> FALSE]
        few == [r |-> RuneError, size |-> 1, short |-> TRUE]
    IN  IF n < 1 THEN [r |-> RuneError, size |-> 0, short |-> TRUE]
        ELSE LET c0 == p[1] IN
        IF c0 < 128 THEN [r |-> c0, size |-> 1, short |-> FALSE]
        ELSE IF c0 < 192 THEN bad
        ELSE IF n < 2 THEN few
        ELSE IF ~IsCont(p[2]) THEN bad
        ELSE IF c0 < 224 THEN
            LET x == (c0 % 32) * 64 + (p[2] % 64)
            IN  IF x <= 127 THEN bad ELSE [r |-> x, size |-> 2, short |-> FALSE]
        ELSE IF n < 3 THEN few
        ELSE IF ~IsCont(p[3]) THEN bad
        ELSE IF c0 < 240 THEN
            LET x == (c0 % 16) * 4096 + (p[2] % 64) * 64 + (p[3] % 64)
            IN  IF x <= 2047 THEN bad
                ELSE IF ~ValidRune(x) THEN bad
                ELSE [r |-> x, size |-> 3, short |-> FALSE]
        ELSE IF n < 4 THEN few
        ELSE IF ~IsCont(p[4]) THEN bad
        ELSE IF c0 < 248 THEN
            LET x == (c0 % 8) * 262144 + (p[2] % 64) * 4096
                     + (p[3] % 64) * 64 + (p[4] % 64)
            IN  IF x <= 65535 \/ ~ValidRune(x) THEN bad
                ELSE [r |-> x, size |-> 4, short |-> FALSE]
        ELSE bad

\* utf8.DecodeRune: [r, size]
DecodeRune(p) ==
    LET result(d) == [r |-> d.r, size |-> d.size]
    IN  result(decodeRuneInternal(p))

\* utf8.first and utf8.acceptRanges of the table-driven implementation:
\* the sequence length a lead byte announces (1 for ASCII and for bytes that
\* can start nothing) and the range its second byte must lie in.
firstSize(c0) ==
    IF c0 < 194 THEN 1
    ELSE IF c0 < 224 THEN 2
    ELSE IF c0 < 240 THEN 3
    ELSE IF c0 < 245 THEN 4
    ELSE 1

acceptLo(c0) == IF c0 = 224 THEN 160 ELSE IF c0 = 240 THEN 144 ELSE 128

acceptHi(c0) == IF c0 = 237 THEN 159 ELSE IF c0 = 244 THEN 143 ELSE 191

\* utf8.FullRune: does p begin with a full encoding of a rune?  An invalid
\* encoding counts as full.  The two implementations differ on truncated
\* input whose first bytes already cannot start a well-formed sequence.
FullRune(p) ==
    IF utf8lib = "internal" THEN ~decodeRuneInternal(p).short
    ELSE LET n == Len(p) IN
         IF n = 0 THEN FALSE
         ELSE IF n >= firstSize(p[1]) THEN TRUE
         ELSE IF n > 1 /\ (p[2] < acceptLo(p[1]) \/ acceptHi(p[1]) < p[2]) THEN TRUE
         ELSE IF n > 2 /\ ~IsCont(p[3]) THEN TRUE
         ELSE FALSE

Utf8Libs == {"internal", "table"}

\* appendRune returning buf[0:nu] instead of buf[0:n+nu]: what was in buf
\* is lost.
appendRune_dropsBuf(buf, rune) == EncodeRune(rune)

\* appendRune
appendRune(buf, rune) == buf \o EncodeRune(rune)

----------------------------------------------------------------------------
(* Code-page data files.  A data file holds the UTF-8 text of 256 runes;     *)
(* []int(string(data)) turns it into the table, so every entry is a valid   *)
(* rune or RuneError.  CodePages names the files of the model:              *)
(*   latin1  byte x is rune x;                                              *)
(*   shift   bytes 128..254 are runes 19008..19134 and byte 255 is          *)
(*           RuneError (one-to-one);                                        *)
(*   holes   bytes 128..159 are undefined and all hold RuneError, and byte   *)
(*           201 holds U+00E9 as byte 233 does.                             *)

CodePages == {"latin1", "shift", "holes"}

readFile(arg) ==
    [i \in 1..256 |->
        LET x == i - 1 IN
        CASE arg = "latin1" -> x
          [] arg = "shift"  -> IF x < 128 THEN x
                               ELSE IF x = 255 THEN RuneError ELSE 18880 + x
          [] arg = "holes"  -> IF x >= 128 /\ x <= 159 THEN RuneError
                               ELSE IF x = 201 THEN 233 ELSE x]

\* fromCodePage with the table one entry off: byte x gets the rune of x + 1.
fromCodePage_offByOne(arg) ==
    LET runes == readFile(arg)
    IN  [x \in 0..255 |-> runes[IF x = 255 THEN 256 ELSE x + 2]]

\* fromCodePage: the byte -> rune table built from the file (indexed 0..255)
fromCodePage(arg) ==
    LET runes == readFile(arg) IN [x \in 0..255 |-> runes[x + 1]]

\* toCodePage: the rune -> byte map built by m[r] = byte(i) for i = 0, 1, ...
\* over the runes of the file, so a rune that occurs twice keeps its last
\* index.
toCodePage(arg) ==
    LET runes == readFile(arg)
        keys  == {runes[i] : i \in 1..256}
    IN  [k \in keys |->
            LET at == {i \in 1..256 : runes[i] = k}
            IN  (CHOOSE i \in at : \A j \in at : j <= i) - 1]

\* cacheStore once every file is loaded: the tables under cpKeyFrom(arg) and
\* the maps under cpKeyTo(arg)
cacheStoreFrom == [arg \in CodePages |-> fromCodePage(arg)]

cacheStoreTo == [arg \in CodePages |-> toCodePage(arg)]

----------------------------------------------------------------------------
(* Translators *)

\* translateFromCodePage.Translate
RECURSIVE fromCodePageLoop(_, _, _)
fromCodePageLoop(byte2rune, data, scratch) ==
    IF Len(data) = 0 THEN scratch
    ELSE fromCodePageLoop(byte2rune, Drop(data, 1),
                          appendRune(scratch, byte2rune[data[1]]))

translateFromCodePage(byte2rune, data, eof) ==
    [n |-> Len(data), cdata |-> fromCodePageLoop(byte2rune, data, <<>>)]

\* translateToCodePage.Translate
RECURSIVE toCodePageLoop(_, _, _, _, _)
toCodePageLoop(rune2byte, data, eof, n, scratch) ==
    IF Len(data) = 0 THEN [n |-> n, cdata |-> scratch]
    ELSE IF ~FullRune(data) /\ ~eof THEN [n |-> n, cdata |-> scratch]
    ELSE LET next(d) ==
                 LET ok == d.r \in DOMAIN rune2byte
                     b  == IF ok THEN rune2byte[d.r] ELSE 63
                 IN  toCodePageLoop(rune2byte, Drop(data, d.size), eof,
                                    n + d.size, Append(scratch, b))
         IN  next(DecodeRune(data))

\* translateToCodePage.Translate without the FullRune test: a rune cut by
\* the end of data is encoded at once.
translateToCodePage_noHold(rune2byte, data, eof) ==
    toCodePageLoop(rune2byte, data, TRUE, 0, <<>>)

translateToCodePage(rune2byte, data, eof) ==
    toCodePageLoop(rune2byte, data, eof, 0, <<>>)

\* translateToUTF8.Translate
RECURSIVE toUTF8Loop(_, _, _, _)
toUTF8Loop(data, eof, n, scratch) ==
    IF Len(data) = 0 THEN [n |-> n, cdata |-> scratch]
    ELSE IF ~FullRune(data) /\ ~eof THEN [n |-> n, cdata |-> scratch]
    ELSE LET next(d) == toUTF8Loop(Drop(data, d.size), eof, n + d.size,
                                   appendRune(scratch, d.r))
         IN  next(DecodeRune(data))

\* translateToUTF8.Translate without the FullRune test: a rune cut by the
\* end of data is decoded at once.
translateToUTF8_noHold(data, eof) == toUTF8Loop(data, TRUE, 0, <<>>)

\* translateToUTF8.Translate testing FullRune alone, without "&& !eof": a
\* truncated rune is held back at the end of the stream too.
translateToUTF8_holdsAtEof(data, eof) == toUTF8Loop(data, FALSE, 0, <<>>)

translateToUTF8(data, eof) == toUTF8Loop(data, eof, 0, <<>>)

\* Big5 consists of 89 fonts of 157 chars each
big5Max == 13973
big5Font == 157

\* The mapping table read from big5.dat, big5Max runes (the file is UTF-8
\* text, so no entry is negative): index 0 holds U+4E2D, every fourth entry
\* holds RuneError, the rest hold CJK runes.
big5map(ix) ==
    IF ix = 0 THEN 20013
    ELSE IF ix % 4 = 3 THEN RuneError
    ELSE 19968 + ix

\* big5Step without "if ix < len(p.big5map)": every index is read.
big5Step_noBound(font, c0, scratch) ==
    IF font = -1 THEN
        IF c0 >= 161 THEN [font |-> c0, scratch |-> scratch, reads |-> {}]
        ELSE [font |-> -1, scratch |-> scratch, reads |-> {}]
    ELSE
        LET inLow  == c0 >= 64 /\ c0 <= 126
            inHigh == c0 >= 161 /\ c0 <= 254
            c == IF inLow THEN c0 - 64 ELSE IF inHigh THEN c0 - 161 + 63 ELSE c0
            f == IF inLow \/ inHigh THEN font ELSE 255
            ix == (f - 161) * big5Font + c
            r0 == IF f <= 254 THEN big5map(ix) ELSE RuneError
        IN  [font |-> -1, scratch |-> appendRune(scratch, r0),
             reads |-> IF f <= 254 THEN {ix} ELSE {}]

\* One iteration of the loop of big5CvtToUTF8.Convert on byte c0:
\* [font, scratch, reads] afterwards, reads being the indices at which the
\* iteration reads big5map.
big5Step(font, c0, scratch) ==
    IF font = -1 THEN
        \* idle state
        IF c0 >= 161 THEN [font |-> c0, scratch |-> scratch, reads |-> {}]
        ELSE [font |-> -1, scratch |-> scratch, reads |-> {}]
    ELSE
        LET inLow  == c0 >= 64 /\ c0 <= 126
            inHigh == c0 >= 161 /\ c0 <= 254
            c == IF inLow THEN c0 - 64 ELSE IF inHigh THEN c0 - 161 + 63 ELSE c0
            f == IF inLow \/ inHigh THEN font ELSE 255
            ix == (f - 161) * big5Font + c
            r0 == IF f <= 254 /\ ix < big5Max THEN big5map(ix) ELSE RuneError
            r1 == IF f <= 254 /\ r0 = -1 THEN RuneError ELSE r0
        IN  [font |-> -1, scratch |-> appendRune(scratch, r1),
             reads |-> IF f <= 254 /\ ix < big5Max THEN {ix} ELSE {}]

\* big5CvtToUTF8.Convert: [n, cdata, font, reads]
RECURSIVE big5Loop(_, _, _, _, _)
big5Loop(font, data, n, scratch, reads) ==
    IF Len(data) = 0
    THEN [n |-> n, cdata |-> scratch, font |-> font, reads |-> reads]
    ELSE LET next(s) == big5Loop(s.font, Drop(data, 1), n + 1, s.scratch,
                                 reads \cup s.reads)
         IN  next(big5Step(font, data[1], scratch))

big5Convert(font, data, eof) == big5Loop(font, data, 0, <<>>, {})

\* iconvTranslator.Translate for the charset "UTF-8": iconv copies the
\* well-formed sequences, EILSEQ gives RuneError for one byte, and EINVAL,
\* an incomplete sequence at the end of data, ends the call whatever eof
\* says, so the bytes of the sequence stay unconsumed.
iconvTranslate(data, eof) == toUTF8Loop(data, FALSE, 0, <<>>)

\* Translator.Translate, dispatched on the implementation:
\* [n, cdata, tr, reads]
Translate(t, data, eof) ==
    LET stateless(x) == [n |-> x.n, cdata |-> x.cdata, tr |-> t, reads |-> {}]
        stateful(x)  == [n |-> x.n, cdata |-> x.cdata,
                         tr |-> [t EXCEPT !.font = x.font], reads |-> x.reads]
    IN  CASE t.kind = "cpFrom" ->
                stateless(translateFromCodePage(cacheStoreFrom[t.arg], data, eof))
          [] t.kind = "cpTo" ->
                stateless(translateToCodePage(cacheStoreTo[t.arg], data, eof))
          [] t.kind = "utf8" ->
                stateless(translateToUTF8(data, eof))
          [] t.kind = "big5" ->
                stateful(big5Convert(t.font, data, eof))
          [] t.kind = "iconv" ->
                stateless(iconvTranslate(data, eof))

\* The record of one Translate call: its arguments, its results, the
\* translator's font before and after, the table indices it read.
CallRec(t, data, eof, x) ==
    [kind |-> t.kind, arg |-> t.arg, data |-> data, eof |-> eof, n |-> x.n,
     cdata |-> x.cdata, font0 |-> t.font, font1 |-> x.tr.font,
     reads |-> x.reads]

----------------------------------------------------------------------------
(* The upstream io.Reader of the tests: a bytes.Buffer, bare or wrapped by  *)
(* iotest.OneByteReader, iotest.HalfReader or iotest.DataErrReader.         *)

Modes == {"whole", "onebyte", "half", "dataerr"}

\* One Read of the upstream source into a slice of `space` bytes when
\* `remaining` bytes are left: [n, err].
Upstream(m, remaining, space) ==
    LET ask == CASE m = "onebyte" -> Min(space, 1)
                 [] m = "half"    -> (space + 1) \div 2
                 [] OTHER         -> space
        n == Min(ask, remaining)
    IN  IF remaining = 0
        THEN [n |-> 0, err |-> IF ask = 0 /\ m # "dataerr" THEN "nil" ELSE "EOF"]
        ELSE [n |-> n,
              err |-> IF m = "dataerr" /\ n = remaining THEN "EOF" ELSE "nil"]

----------------------------------------------------------------------------
(* translatingReader *)

\* ensureCap, on capacities: the capacity of the slice it returns for a slice
\* of capacity c when n bytes are asked for.
RECURSIVE growCap(_, _)
growCap(m, n) ==
    LET m1 == IF m < 1024 THEN m + m ELSE m + (m \div 4)
    IN  IF m1 >= n THEN m1 ELSE growCap(m1, n)

ensureCap(c, n) ==
    IF n <= c THEN c
    ELSE IF c = 0 THEN n
    ELSE growCap(c, n)

\* NewTranslatingReader
NewTranslatingReader == [cdata |-> <<>>, rdata |-> <<>>, cap |-> 0, err |-> "nil"]

\* The reader emptying rdata after every Translate: r.rdata[0:0].
shiftRdata_dropsRest(rdata, nc) == <<>>

\* Copy unconsumed data to the start of the rdata buffer:
\* r.rdata[0:copy(r.rdata, r.rdata[nc:])]
shiftRdata(rdata, nc) == Drop(rdata, nc)

\* readTranslate without "if nc == 0 && r.err != nil { nc = len(r.rdata) }":
\* what the Translator refuses at the end of the stream stays in rdata.
readTranslate_noForce(st) ==
    LET after(x) ==
            [r     |-> [st.r EXCEPT !.cdata = x.cdata,
                                    !.rdata = shiftRdata(st.r.rdata, x.n)],
             tr    |-> x.tr,
             pos   |-> st.pos,
             up    |-> st.up,
             calls |-> Append(st.calls,
                              CallRec(st.tr, st.r.rdata,
                                      st.r.err # "nil", x))]
    IN  after(Translate(st.tr, st.r.rdata, st.r.err # "nil"))

\* The part of the loop of Read after the upstream read: Translate what is
\* in rdata, keep the output as cdata, drop the consumed bytes.
\* st is [r, tr, pos, calls, up]: the reader, its Translator, the upstream's
\* position, the Translate calls so far, the upstream's mode.
readTranslate(st) ==
    LET after(x) ==
            \* Ensure that we consume all bytes at eof if the converter
            \* refuses them.
            LET nc == IF x.n = 0 /\ st.r.err # "nil"
                      THEN Len(st.r.rdata) ELSE x.n
            IN  [r     |-> [st.r EXCEPT !.cdata = x.cdata,
                                        !.rdata = shiftRdata(st.r.rdata, nc)],
                 tr    |-> x.tr,
                 pos   |-> st.pos,
                 up    |-> st.up,
                 calls |-> Append(st.calls,
                                  CallRec(st.tr, st.r.rdata,
                                          st.r.err # "nil", x))]
    IN  after(Translate(st.tr, st.r.rdata, st.r.err # "nil"))

\* The upstream read of the loop of Read, for a destination of k bytes.
readFill(st, k) ==
    LET filled(c1, up) ==
            \* Guard against non-compliant Readers.
            LET err == IF up.n = 0 /\ up.err = "nil" THEN "EOF" ELSE up.err
            IN  [st EXCEPT !.r.cap = c1,
                           !.r.rdata = @ \o SubSeq(input, st.pos + 1,
                                                   st.pos + up.n),
                           !.r.err = err,
                           !.pos = @ + up.n]
        read(c1) ==
            filled(c1, Upstream(st.up, Len(input) - st.pos,
                                c1 - Len(st.r.rdata)))
    IN  read(ensureCap(st.r.cap, Len(st.r.rdata) + k))

\* An iteration of the loop of Read that leaves the reader and its
\* Translator as they were is followed by the same iteration for ever: Read
\* does not return, which the model records as the status "hang".
Hangs(st, st1) == st1.r = st.r /\ st1.tr = st.tr

Hung(st) ==
    [r |-> st.r, tr |-> st.tr, pos |-> st.pos, calls |-> st.calls,
     up |-> st.up, n |-> 0, out |-> <<>>, err |-> "hang"]

\* translatingReader.Read(buf) with len(buf) = k:
\* [r, tr, pos, calls, up, n, out, err], out being the n bytes copied to buf.
RECURSIVE translatingReaderRead(_, _)

\* Read emptying r.cdata once it has copied from it, r.cdata[:0] for
\* r.cdata[n:]: the output that did not fit into buf is lost.
translatingReaderRead_dropsPending(st, k) ==
    IF Len(st.r.cdata) > 0 THEN
        LET n == Min(k, Len(st.r.cdata))
        IN  [r |-> [st.r EXCEPT !.cdata = <<>>], tr |-> st.tr,
             pos |-> st.pos, calls |-> st.calls, up |-> st.up,
             n |-> n, out |-> Take(st.r.cdata, n), err |-> "nil"]
    ELSE IF st.r.err = "nil" THEN
        CHOOSE ret \in {translatingReaderRead(st1, k) :
                            st1 \in {readTranslate(readFill(st, k))}} : TRUE
    ELSE IF Len(st.r.rdata) = 0 THEN
        [r |-> st.r, tr |-> st.tr, pos |-> st.pos, calls |-> st.calls,
         up |-> st.up, n |-> 0, out |-> <<>>, err |-> st.r.err]
    ELSE LET again(st1) == IF Hangs(st, st1) THEN Hung(st1)
                           ELSE translatingReaderRead(st1, k)
         IN  CHOOSE ret \in {again(st1) : st1 \in {readTranslate(st)}} : TRUE

\* Read without "else if len(r.rdata) == 0": once the upstream's status is
\* recorded and nothing is pending, Read returns it, whatever is in rdata.
translatingReaderRead_earlyStatus(st, k) ==
    IF Len(st.r.cdata) > 0 THEN
        LET n == Min(k, Len(st.r.cdata))
        IN  [r |-> [st.r EXCEPT !.cdata = Drop(@, n)], tr |-> st.tr,
             pos |-> st.pos, calls |-> st.calls, up |-> st.up,
             n |-> n, out |-> Take(st.r.cdata, n), err |-> "nil"]
    ELSE IF st.r.err = "nil" THEN
        CHOOSE ret \in {translatingReaderRead(st1, k) :
                            st1 \in {readTranslate(readFill(st, k))}} : TRUE
    ELSE
        [r |-> st.r, tr |-> st.tr, pos |-> st.pos, calls |-> st.calls,
         up |-> st.up, n |-> 0, out |-> <<>>, err |-> st.r.err]

translatingReaderRead(st, k) ==
    IF Len(st.r.cdata) > 0 THEN
        LET n == Min(k, Len(st.r.cdata))
        IN  [r |-> [st.r EXCEPT !.cdata = Drop(@, n)], tr |-> st.tr,
             pos |-> st.pos, calls |-> st.calls, up |-> st.up,
             n |-> n, out |-> Take(st.r.cdata, n), err |-> "nil"]
    ELSE IF st.r.err = "nil" THEN
        CHOOSE ret \in {translatingReaderRead(st1, k) :
                            st1 \in {readTranslate(readFill(st, k))}} : TRUE
    ELSE IF Len(st.r.rdata) = 0 THEN
        [r |-> st.r, tr |-> st.tr, pos |-> st.pos, calls |-> st.calls,
         up |-> st.up, n |-> 0, out |-> <<>>, err |-> st.r.err]
    ELSE LET again(st1) == IF Hangs(st, st1) THEN Hung(st1)
                           ELSE translatingReaderRead(st1, k)
         IN  CHOOSE ret \in {again(st1) : st1 \in {readTranslate(st)}} : TRUE

----------------------------------------------------------------------------
(* translatingWriter *)

\* NewTranslatingWriter
NewTranslatingWriter == [buf |-> <<>>]

\* translatingWriter.Write that never keeps a remainder: w.buf stays empty.
translatingWriterWrite_noCarry(wr, t, down, data) ==
    LET after(x) ==
            [w     |-> wr,
             tr    |-> x.tr,
             sink  |-> IF x.n > 0 THEN down \o x.cdata ELSE down,
             calls |-> <<CallRec(t, data, FALSE, x)>>,
             rn    |-> Len(data)]
    IN  after(Translate(t, data, FALSE))

\* translatingWriter.Write without "w.buf = w.buf[:0]": the remainder is
\* appended to what the call presented.
translatingWriterWrite_keepsBuf(wr, t, down, data) ==
    LET wdata == IF Len(wr.buf) > 0 THEN wr.buf \o data ELSE data
        after(x) ==
            [w     |-> [wr EXCEPT !.buf = IF Len(wr.buf) > 0
                                          THEN wdata \o Drop(wdata, x.n)
                                          ELSE Drop(wdata, x.n)],
             tr    |-> x.tr,
             sink  |-> IF x.n > 0 THEN down \o x.cdata ELSE down,
             calls |-> <<CallRec(t, wdata, FALSE, x)>>,
             rn    |-> Len(data)]
    IN  after(Translate(t, wdata, FALSE))

\* translatingWriter.Write(data) on a downstream that accepts everything:
\* [w, tr, sink, calls, rn]
translatingWriterWrite(wr, t, down, data) ==
    LET wdata == IF Len(wr.buf) > 0 THEN wr.buf \o data ELSE data
        after(x) ==
            [w     |-> [wr EXCEPT !.buf = IF x.n < Len(wdata)
                                          THEN Drop(wdata, x.n) ELSE <<>>],
             tr    |-> x.tr,
             sink  |-> IF x.n > 0 THEN down \o x.cdata ELSE down,
             calls |-> <<CallRec(t, wdata, FALSE, x)>>,
             rn    |-> Len(data)]
    IN  after(Translate(t, wdata, FALSE))

\* translatingWriter.Write(data) on a downstream whose Write fails without
\* taking a byte: [w, tr, sink, calls, rn, err].  The downstream is written
\* to only if n > 0; when it fails, Write returns before it resets w.buf,
\* which by then holds the new data behind the carry-over if there was one.
translatingWriterWriteFailing(wr, t, down, data) ==
    LET wbuf == IF Len(wr.buf) > 0 THEN wr.buf \o data ELSE wr.buf
        wdata == IF Len(wr.buf) > 0 THEN wbuf ELSE data
        after(x) ==
            IF x.n > 0
            THEN [w     |-> [wr EXCEPT !.buf = wbuf],
                  tr    |-> x.tr,
                  sink  |-> down,
                  calls |-> <<CallRec(t, wdata, FALSE, x)>>,
                  rn    |-> 0,
                  err   |-> "err"]
            ELSE [w     |-> [wr EXCEPT !.buf = IF x.n < Len(wdata)
                                               THEN Drop(wdata, x.n)
                                               ELSE <<>>],
                  tr    |-> x.tr,
                  sink  |-> down,
                  calls |-> <<CallRec(t, wdata, FALSE, x)>>,
                  rn    |-> Len(data),
                  err   |-> "nil"]
    IN  after(Translate(t, wdata, FALSE))

\* translatingWriter.Close on a downstream that accepts everything:
\* [w, tr, sink, calls]
RECURSIVE translatingWriterClose(_, _, _, _)
translatingWriterClose(wr, t, down, log) ==
    LET after(x) ==
            LET buf1 == Drop(wr.buf, x.n)
                log1 == Append(log, CallRec(t, wr.buf, TRUE, x))
            IN  \* If the Translator produces no data at EOF, then assume
                \* that it never will.
                IF Len(x.cdata) = 0
                THEN [w |-> [wr EXCEPT !.buf = buf1], tr |-> x.tr,
                      sink |-> down, calls |-> log1]
                ELSE IF Len(buf1) = 0
                THEN [w |-> [wr EXCEPT !.buf = buf1], tr |-> x.tr,
                      sink |-> down \o x.cdata, calls |-> log1]
                ELSE translatingWriterClose([wr EXCEPT !.buf = buf1], x.tr,
                                            down \o x.cdata, log1)
    IN  after(Translate(t, wr.buf, TRUE))

----------------------------------------------------------------------------
(* Inputs *)

\* The bytes the inputs are made of, per kind of Translator: for the code
\* page decoder 'A', 'B', an undefined byte of "holes" and 0xFF; for the
\* translators that read UTF-8 'A', the continuation byte 0xA9 and the lead
\* bytes 0xC3, 0xE4, 0xED, 0xF0; for Big5 the control byte 0x1A (no trail byte),
\* the trail byte 0x40 and the lead bytes 0xA1, 0xFA, 0xFF.
BytesOf(kind) ==
    CASE kind = "cpFrom" -> {65, 66, 128, 255}
      [] kind = "big5"   -> {26, 64, 161, 250, 255}
      [] OTHER           -> {65, 169, 195, 228, 237, 240}

InputsOf(kind) == SeqsUpTo(BytesOf(kind), MaxLen)

\* The destination buffer sizes and Write sizes of the callers
BufLens == {1, 2, MaxBuf}

NewTranslator(kind, arg) == [kind |-> kind, arg |-> arg, font |-> -1]

\* fromCodePage(arg), toCodePage(arg), toUTF8(arg) and big5ToUTF8(arg)
Decoders ==
    {NewTranslator("cpFrom", a) : a \in CodePages}
    \cup {NewTranslator("utf8", ""), NewTranslator("big5", "big5.dat")}

Encoders ==
    {NewTranslator("cpTo", a) : a \in CodePages} \cup {NewTranslator("utf8", "")}

Translators == Decoders \cup Encoders

\* The builds that differ for a Translator: only those that call FullRune.
LibsOf(kind) == IF kind \in {"cpTo", "utf8"} THEN Utf8Libs ELSE {"internal"}

NoTranslator == NewTranslator("none", "")

----------------------------------------------------------------------------
(* A caller of Translate that follows the Translator contract: it presents *)
(* the input in pieces, re-presents what a call left unconsumed in front   *)
(* of the next piece, and sets eof on the call that presents the last      *)
(* bytes.                                                                  *)

InitTranslate ==
    /\ tr \in Translators
    /\ wtr = NoTranslator
    /\ utf8lib \in LibsOf(tr.kind)
    /\ input \in InputsOf(tr.kind)
    /\ mode = "whole"
    /\ pos = 0
    /\ r = NewTranslatingReader
    /\ w = NewTranslatingWriter
    /\ wpos = 0
    /\ sink = <<>>
    /\ delivered = <<>>
    /\ status = "nil"
    /\ pending = <<>>
    /\ produced = <<>>
    /\ calls = <<>>
    /\ RegistryUnused
    /\ CacheUnused

\* Translate(pending ++ the next k bytes of the input, eof)
Call(k, eof) ==
    /\ status = "nil"
    /\ pos + k <= Len(input)
    /\ eof => pos + k = Len(input)
    /\ LET data == pending \o SubSeq(input, pos + 1, pos + k)
           returns(x) ==
               /\ tr' = x.tr
               /\ pending' = Drop(data, x.n)
               /\ produced' = produced \o x.cdata
               /\ calls' = <<CallRec(tr, data, eof, x)>>
       IN  returns(Translate(tr, data, eof))
    /\ pos' = pos + k
    /\ status' = IF eof THEN "final" ELSE "nil"
    /\ UNCHANGED <<wtr, utf8lib, input, mode, r, w, wpos, sink, delivered>>
    /\ UNCHANGED packageVars

NextTranslate == \E k \in 0..MaxLen, eof \in BOOLEAN : Call(k, eof)

SpecTranslate == InitTranslate /\ [][NextTranslate]_vars

----------------------------------------------------------------------------
(* A reader over an upstream source: NewTranslatingReader(upstream, tr),   *)
(* read by its caller until it returns an error.                           *)

InitReader ==
    /\ tr \in Decoders
    /\ wtr = NoTranslator
    /\ utf8lib \in LibsOf(tr.kind)
    /\ input \in InputsOf(tr.kind)
    /\ mode \in Modes
    /\ pos = 0
    /\ r = NewTranslatingReader
    /\ w = NewTranslatingWriter
    /\ wpos = 0
    /\ sink = <<>>
    /\ delivered = <<>>
    /\ status = "nil"
    /\ pending = <<>>
    /\ produced = <<>>
    /\ calls = <<>>
    /\ RegistryUnused
    /\ CacheUnused

\* The caller calls Read with a destination buffer of k bytes.
Read(k) ==
    /\ status = "nil"
    /\ LET returns(x) ==
               /\ r' = x.r
               /\ tr' = x.tr
               /\ pos' = x.pos
               /\ calls' = x.calls
               /\ delivered' = delivered \o x.out
               /\ status' = x.err
       IN  \E x \in {translatingReaderRead(
                              [r |-> r, tr |-> tr, pos |-> pos,
                               calls |-> <<>>, up |-> mode], k)} : returns(x)
    /\ UNCHANGED <<wtr, utf8lib, input, mode, w, wpos, sink, pending, produced>>
    /\ UNCHANGED packageVars

NextReader == \E k \in BufLens : Read(k)

SpecReader == InitReader /\ [][NextReader]_vars

----------------------------------------------------------------------------
(* A writer over a downstream sink: NewTranslatingWriter(sink, wtr); the   *)
(* caller writes the input in pieces and then closes the writer.           *)

InitWriter ==
    /\ tr = NoTranslator
    /\ wtr \in Encoders \cup {NewTranslator("big5", "big5.dat")}
    /\ utf8lib \in LibsOf(wtr.kind)
    /\ input \in InputsOf(wtr.kind)
    /\ mode = "whole"
    /\ pos = 0
    /\ r = NewTranslatingReader
    /\ w = NewTranslatingWriter
    /\ wpos = 0
    /\ sink = <<>>
    /\ delivered = <<>>
    /\ status = "nil"
    /\ pending = <<>>
    /\ produced = <<>>
    /\ calls = <<>>
    /\ RegistryUnused
    /\ CacheUnused

\* The caller writes the next k bytes of the input.
Write(k) ==
    /\ status = "nil"
    /\ wpos + k <= Len(input)
    /\ LET returns(x) ==
               /\ w' = x.w
               /\ wtr' = x.tr
               /\ sink' = x.sink
               /\ calls' = x.calls
               /\ wpos' = wpos + x.rn
       IN  returns(translatingWriterWrite(
                       w, wtr, sink, SubSeq(input, wpos + 1, wpos + k)))
    /\ UNCHANGED <<tr, utf8lib, input, mode, pos, r, delivered, status,
                   pending, produced>>
    /\ UNCHANGED packageVars

\* The caller closes the writer after the last Write.
Close ==
    /\ status = "nil"
    /\ wpos = Len(input)
    /\ LET returns(x) ==
               /\ w' = x.w
               /\ wtr' = x.tr
               /\ sink' = x.sink
               /\ calls' = x.calls
       IN  returns(translatingWriterClose(w, wtr, sink, <<>>))
    /\ status' = "closed"
    /\ UNCHANGED <<tr, utf8lib, input, mode, pos, r, wpos, delivered,
                   pending, produced>>
    /\ UNCHANGED packageVars

\* The caller writes the next k bytes of the input while the downstream is
\* failing; it writes the bytes again if Write reports an error.
WriteFail(k) ==
    /\ status = "nil"
    /\ wpos + k <= Len(input)
    /\ Len(w.buf) + k <= MaxCarry
    /\ LET returns(x) ==
               /\ w' = x.w
               /\ wtr' = x.tr
               /\ sink' = x.sink
               /\ calls' = x.calls
               /\ wpos' = wpos + x.rn
       IN  returns(translatingWriterWriteFailing(
                       w, wtr, sink, SubSeq(input, wpos + 1, wpos + k)))
    /\ UNCHANGED <<tr, utf8lib, input, mode, pos, r, delivered, status,
                   pending, produced>>
    /\ UNCHANGED packageVars

NextWriter == (\E k \in BufLens : Write(k)) \/ Close

SpecWriter == InitWriter /\ [][NextWriter]_vars

\* The same caller over a downstream that fails now and then
NextWriterFail ==
    \/ \E k \in BufLens : Write(k)
    \/ \E k \in BufLens : WriteFail(k)
    \/ Close

SpecWriterFail == InitWriter /\ [][NextWriterFail]_vars

----------------------------------------------------------------------------
(* The round trip of the test: NewReader(name, upstream) decodes the       *)
(* input, io.Copy moves what it reads to NewWriter(name, sink), and the    *)
(* writer is closed.  Both Translators are made from the same data file.   *)

\* The data of the round trip: each of the 256 byte values of
\* testCodepage, and the sequences over the bytes of the decoder's inputs.
RoundTripInputs == {<<b>> : b \in 0..255} \cup InputsOf("cpFrom")

InitRoundTrip ==
    /\ \E a \in CodePages :
          /\ tr = NewTranslator("cpFrom", a)
          /\ wtr = NewTranslator("cpTo", a)
    /\ utf8lib \in Utf8Libs
    /\ input \in RoundTripInputs
    /\ mode \in Modes
    /\ pos = 0
    /\ r = NewTranslatingReader
    /\ w = NewTranslatingWriter
    /\ wpos = 0
    /\ sink = <<>>
    /\ delivered = <<>>
    /\ status = "nil"
    /\ pending = <<>>
    /\ produced = <<>>
    /\ calls = <<>>
    /\ RegistryUnused
    /\ CacheUnused

\* One iteration of io.Copy with a buffer of k bytes: Read, then Write of
\* the bytes read; Copy ends when Read returns an error.
Copy(k) ==
    /\ status = "nil"
    /\ LET written(x, y) ==
               /\ w' = y.w
               /\ wtr' = y.tr
               /\ sink' = y.sink
               /\ wpos' = wpos + y.rn
               /\ calls' = x.calls \o y.calls
           returns(x) ==
               /\ r' = x.r
               /\ tr' = x.tr
               /\ pos' = x.pos
               /\ status' = x.err
               /\ IF x.n > 0
                  THEN written(x, translatingWriterWrite(w, wtr, sink, x.out))
                  ELSE /\ calls' = x.calls
                       /\ UNCHANGED <<w, wtr, sink, wpos>>
       IN  returns(translatingReaderRead(
                       [r |-> r, tr |-> tr, pos |-> pos, calls |-> <<>>,
                        up |-> mode], k))
    /\ UNCHANGED <<utf8lib, input, mode, delivered, pending, produced>>
    /\ UNCHANGED packageVars

\* w.Close() once io.Copy has returned
CloseCopy ==
    /\ status = "EOF"
    /\ LET returns(x) ==
               /\ w' = x.w
               /\ wtr' = x.tr
               /\ sink' = x.sink
               /\ calls' = x.calls
       IN  returns(translatingWriterClose(w, wtr, sink, <<>>))
    /\ status' = "closed"
    /\ UNCHANGED <<tr, utf8lib, input, mode, pos, r, wpos, delivered,
                   pending, produced>>
    /\ UNCHANGED packageVars

NextRoundTrip == (\E k \in BufLens : Copy(k)) \/ CloseCopy

SpecRoundTrip == InitRoundTrip /\ [][NextRoundTrip]_vars

----------------------------------------------------------------------------
(* Properties *)

\* The code pages whose 256 entries are pairwise distinct
OneToOne ==
    {a \in CodePages :
        \A i, j \in 1..256 : readFile(a)[i] = readFile(a)[j] => i = j}

\* C1 as stated: when the round trip has ended, the sink holds exactly the
\* input bytes, for every code page and every chunking.
C1_RoundTripAnyTable == status = "closed" => sink = input

\* C1 amended: when the round trip through a code page whose 256 entries are
\* pairwise distinct has ended, the sink holds exactly the input bytes, in
\* order, for every chunking of the upstream and of io.Copy.
C1_RoundTrip == (status = "closed" /\ tr.arg \in OneToOne) => sink = input

\* Three bytes made the whole trip through a one-to-one code page that is
\* not the identity, the upstream handing them out one byte at a time and
\* the writer carrying part of a rune over from one Write to the next.
C1_Witness ==
    /\ status = "closed"
    /\ tr.arg = "shift"
    /\ mode = "onebyte"
    /\ input = <<65, 128, 255>>
    /\ sink = input
    /\ wpos = 7
    /\ Len(calls) = 1 /\ calls[1].eof /\ calls[1].data = <<>>

\* A caller that reads a fresh reader over the input to its end with a
\* destination buffer of k bytes, the way ioutil.ReadAll does: the bytes it
\* gets.  st is the reader's state, acc the bytes got so far.
RECURSIVE readAll(_, _, _)
readAll(st, k, acc) ==
    LET x == translatingReaderRead(st, k)
    IN  IF x.err # "nil" THEN acc
        ELSE readAll([r |-> x.r, tr |-> x.tr, pos |-> x.pos, calls |-> <<>>,
                      up |-> x.up], k, acc \o x.out)

\* What a reader with the same Translator delivers when the upstream hands
\* out the whole input in one contiguous read (the destination buffer is as
\* long as the input, so the first upstream read has room for all of it).
ContiguousOutput ==
    readAll([r |-> NewTranslatingReader, tr |-> NewTranslator(tr.kind, tr.arg),
             pos |-> 0, calls |-> <<>>, up |-> "whole"],
            IF Len(input) = 0 THEN 1 ELSE Len(input), <<>>)

\* C2: once a reader whose upstream hands out one byte per read has reported
\* the end of the stream, the bytes it delivered are those a reader delivers
\* whose upstream hands out the whole input in one read.
C2_ShortReads ==
    (mode = "onebyte" /\ status # "nil") => delivered = ContiguousOutput

\* A three-byte rune was handed out one byte at a time, so it was split at
\* both of its byte boundaries, and came out whole.
C2_Witness ==
    /\ mode = "onebyte"
    /\ status = "EOF"
    /\ tr.kind = "utf8"
    /\ input = <<228, 169, 169>>
    /\ delivered = input

\* The number of runes in UTF-8 text: its bytes that are not continuations
RuneCount(bytes) == Cardinality({i \in 1..Len(bytes) : ~IsCont(bytes[i])})

\* The number of characters a Big5 stream s holds for a decoder that is in
\* state PendingLead (lead) or Idle (~lead) and gets no byte after s: one per
\* trail byte, and one for a lead byte the stream ends on.
RECURSIVE Big5Chars(_, _)
Big5Chars(lead, s) ==
    IF Len(s) = 0 THEN (IF lead THEN 1 ELSE 0)
    ELSE IF lead THEN 1 + Big5Chars(FALSE, Drop(s, 1))
    ELSE Big5Chars(s[1] >= 161, Drop(s, 1))

\* C3 as stated: when the Big5 stream has been presented to its end, every
\* byte is consumed and the output holds a character for every lead byte
\* received in the Idle state, also for one the stream ends on; the input
\* [0xA1] alone gives exactly one replacement character.
C3_FlushCompleteness ==
    (tr.kind = "big5" /\ status = "final") =>
        /\ pending = <<>>
        /\ RuneCount(produced) = Big5Chars(FALSE, input)
        /\ (input = <<161>> => produced = EncodeRune(RuneError))

\* C4: every Translate call consumes between 0 and len(data) bytes, and all
\* of them when eof is set.
C4_Consumed ==
    \A i \in 1..Len(calls) :
        /\ 0 <= calls[i].n
        /\ calls[i].n <= Len(calls[i].data)
        /\ calls[i].eof => calls[i].n = Len(calls[i].data)

\* The last call of a stream presented a held-back, truncated rune with eof
\* set, and the passthrough Translator consumed it.
C4_Witness ==
    /\ Len(calls) = 1
    /\ calls[1].kind = "utf8"
    /\ calls[1].eof
    /\ calls[1].data = <<228, 169>>
    /\ calls[1].n = 2
    /\ input = <<65, 228, 169>>

\* What the repair policy asks for the consumed UTF-8 input p: a well-formed
\* sequence is passed through (utf8) or encoded through the rune -> byte map
\* ('?' for a rune that is no key), and an ill-formed byte is replaced by
\* U+FFFD (utf8) or by '?' (cpTo).
RECURSIVE Repaired(_, _, _)
Repaired(kind, arg, p) ==
    IF Len(p) = 0 THEN <<>>
    ELSE LET d   == DecodeRune(p)
             off == d.r = RuneError /\ d.size = 1
             m   == cacheStoreTo[arg]
             u   == IF kind = "utf8"
                    THEN (IF off THEN EncodeRune(RuneError) ELSE Take(p, d.size))
                    ELSE <<IF ~off /\ d.r \in DOMAIN m THEN m[d.r] ELSE 63>>
         IN  u \o Repaired(kind, arg, Drop(p, d.size))

\* C5 as stated: every offending input unit is consumed and replaced by the
\* replacement marker: U+FFFD when decoding (also for a Big5 lead byte the
\* stream ends on), '?' when encoding, whatever the code page holds.
C5_Repaired ==
    \A i \in 1..Len(calls) :
        LET c == calls[i] IN
        /\ c.kind \in {"utf8", "cpTo"} =>
               c.cdata = Repaired(c.kind, c.arg, Take(c.data, c.n))
        /\ (c.kind = "big5" /\ c.eof) =>
               /\ c.n = Len(c.data)
               /\ RuneCount(c.cdata) = Big5Chars(c.font0 # -1, c.data)

\* The runes of UTF-8 text p, an ill-formed byte counting as RuneError
RECURSIVE Runes(_)
Runes(p) ==
    IF Len(p) = 0 THEN <<>>
    ELSE LET d == DecodeRune(p) IN <<d.r>> \o Runes(Drop(p, d.size))

\* p is well-formed UTF-8: it decodes without an ill-formed byte.
RECURSIVE WellFormed(_)
WellFormed(p) ==
    \/ Len(p) = 0
    \/ LET d == DecodeRune(p)
       IN  ~(d.r = RuneError /\ d.size = 1) /\ WellFormed(Drop(p, d.size))

\* p is a truncated rune: a proper, non-empty prefix of a well-formed
\* sequence.
IsTruncated(p) ==
    /\ Len(p) >= 1
    /\ Len(p) < firstSize(p[1])
    /\ Len(p) >= 2 => (p[2] >= acceptLo(p[1]) /\ p[2] <= acceptHi(p[1]))
    /\ Len(p) >= 3 => IsCont(p[3])

\* The length of the truncated rune that data ends in, 0 when it ends in
\* none.
TruncTail(data) ==
    LET ts == {t \in 1..Min(3, Len(data)) :
                  IsTruncated(Drop(data, Len(data) - t))}
    IN  IF ts = {} THEN 0 ELSE CHOOSE t \in ts : TRUE

\* n copies of the UTF-8 bytes of U+FFFD
RECURSIVE Replacements(_)
Replacements(n) ==
    IF n = 0 THEN <<>> ELSE EncodeRune(RuneError) \o Replacements(n - 1)

\* C6: for well-formed input, however it is cut into Translate calls, the
\* output of the passthrough Translator followed by what it has left
\* unconsumed is the input presented so far, and after the call with eof the
\* output is the input, byte for byte.
C6_Passthrough ==
    (tr.kind = "utf8" /\ WellFormed(input)) =>
        /\ produced \o pending = Take(input, pos)
        /\ status = "final" => (produced = input /\ pending = <<>>)

\* The input "A" + U+00E9 went through in more than one call, the last one
\* presenting the two bytes of U+00E9 with eof set.
C6_Witness ==
    /\ tr.kind = "utf8"
    /\ status = "final"
    /\ input = <<65, 195, 169>>
    /\ Len(calls) = 1 /\ calls[1].data = <<195, 169>>
    /\ produced = input

\* C7: a call of the passthrough Translator on data that ends in a truncated
\* rune of t bytes consumes, without eof, exactly the bytes before it and
\* emits what they give; with eof it consumes everything and emits t
\* replacement characters for the truncated rune.
C7_HoldBack ==
    \A i \in 1..Len(calls) :
        LET c    == calls[i]
            t    == TruncTail(c.data)
            head == Take(c.data, Len(c.data) - t)
        IN  (c.kind = "utf8" /\ t > 0) =>
                IF c.eof
                THEN /\ c.n = Len(c.data)
                     /\ c.cdata = Repaired("utf8", "", head) \o Replacements(t)
                ELSE /\ c.n = Len(head)
                     /\ c.cdata = Repaired("utf8", "", head)

\* "A" followed by two of the three bytes of a rune, without eof: "A" was
\* consumed and emitted, the two bytes were left to be presented again.
C7_Witness ==
    /\ Len(calls) = 1
    /\ calls[1].kind = "utf8"
    /\ ~calls[1].eof
    /\ calls[1].data = <<65, 228, 169>>
    /\ calls[1].n = 1
    /\ calls[1].cdata = <<65>>
    /\ pending = <<228, 169>>

\* C8: every call of the code-page decoder consumes all of data and emits,
\* in order, one rune per byte: the entry of the data file at that byte.
C8_CodePageDecode ==
    \A i \in 1..Len(calls) :
        LET c == calls[i] IN
        c.kind = "cpFrom" =>
            /\ c.n = Len(c.data)
            /\ Runes(c.cdata) =
                   [j \in 1..Len(c.data) |-> readFile(c.arg)[c.data[j] + 1]]
            /\ c.data = <<65, 66>> => c.cdata = <<65, 66>>

\* The bytes 'A', 0x80, 0xFF were decoded through "shift" in one call
\* without eof: 'A', U+4A40 and U+FFFD came out.
C8_Witness ==
    /\ Len(calls) = 1
    /\ calls[1].kind = "cpFrom"
    /\ calls[1].arg = "shift"
    /\ ~calls[1].eof
    /\ calls[1].data = <<65, 128, 255>>
    /\ calls[1].n = 3
    /\ Runes(calls[1].cdata) = <<65, 19008, RuneError>>

\* The bytes of code page arg whose entry in the data file is rune
BytesFor(arg, rune) == {x \in 0..255 : readFile(arg)[x + 1] = rune}

\* C9: every call of the code-page encoder emits one byte per well-formed
\* sequence it consumes: the byte the inverse table holds for the rune (the
\* last byte of the data file with that entry), or '?' when no byte has that
\* entry; without eof it leaves a truncated rune at the end of data
\* unconsumed; and when the stream has been presented to its end, the output
\* is what one call on the whole input gives.
C9_CodePageEncode ==
    /\ \A i \in 1..Len(calls) :
          LET c    == calls[i]
              used == Take(c.data, c.n)
              rs   == Runes(used)
              t    == TruncTail(c.data)
          IN  c.kind = "cpTo" =>
                /\ WellFormed(used) =>
                      /\ Len(c.cdata) = Len(rs)
                      /\ \A j \in 1..Len(rs) :
                            LET bs == BytesFor(c.arg, rs[j])
                            IN  IF bs = {} THEN c.cdata[j] = 63
                                ELSE /\ c.cdata[j] \in bs
                                     /\ \A x \in bs : x <= c.cdata[j]
                /\ (~c.eof /\ t > 0) => c.n = Len(c.data) - t
    /\ (tr.kind = "cpTo" /\ status = "final") =>
          /\ pending = <<>>
          /\ produced =
                 toCodePageLoop(cacheStoreTo[tr.arg], input, TRUE, 0, <<>>).cdata

\* "A" + U+00E9 was encoded through "shift" in more than one call: 'A' is
\* in the table, U+00E9 is not and became '?'.
C9_Witness ==
    /\ tr.kind = "cpTo"
    /\ tr.arg = "shift"
    /\ status = "final"
    /\ input = <<65, 195, 169>>
    /\ Len(calls) = 1 /\ calls[1].data = <<195, 169>>
    /\ produced = <<65, 63>>

\* The rune of the Big5 pair (f, c): the table entry at
\* (f - 0xA1) * 157 + col(c) when c lies in 64..126 or 161..254, the index is
\* inside the table and the entry is not -1; RuneError otherwise.
PairRune(f, c) ==
    LET ok  == (c >= 64 /\ c <= 126) \/ (c >= 161 /\ c <= 254)
        col == IF c <= 126 THEN c - 64 ELSE c - 161 + 63
        ix  == (f - 161) * 157 + col
    IN  IF ok /\ ix >= 0 /\ ix < 13973 /\ big5map(ix) # -1
        THEN big5map(ix) ELSE RuneError

\* s, received with pending lead byte lead (-1: none), is made of pairs only:
\* every byte received in the Idle state is a lead byte.
RECURSIVE PairsOnly(_, _)
PairsOnly(lead, s) ==
    \/ Len(s) = 0
    \/ IF lead # -1 THEN PairsOnly(-1, Drop(s, 1))
       ELSE s[1] >= 161 /\ PairsOnly(s[1], Drop(s, 1))

\* The output and the final state asked of the decoder for such an s
RECURSIVE PairsOutput(_, _)
PairsOutput(lead, s) ==
    IF Len(s) = 0 THEN <<>>
    ELSE IF lead # -1
         THEN EncodeRune(PairRune(lead, s[1])) \o PairsOutput(-1, Drop(s, 1))
         ELSE PairsOutput(s[1], Drop(s, 1))

RECURSIVE PairsState(_, _)
PairsState(lead, s) ==
    IF Len(s) = 0 THEN lead
    ELSE IF lead # -1 THEN PairsState(-1, Drop(s, 1))
    ELSE PairsState(s[1], Drop(s, 1))

\* C10: in state PendingLead(f) the Big5 decoder consumes the next byte c,
\* whatever it is, emits the one rune of the pair (f, c) and is Idle again,
\* within one call or across calls; no call reads the table outside its
\* bounds; [0xA1, 0x40] gives the rune at index 0.
C10_PairDecoding ==
    \A i \in 1..Len(calls) :
        LET c == calls[i] IN
        c.kind = "big5" =>
            /\ c.reads \subseteq 0..(big5Max - 1)
            /\ PairsOnly(c.font0, c.data) =>
                  /\ c.n = Len(c.data)
                  /\ c.cdata = PairsOutput(c.font0, c.data)
                  /\ c.font1 = PairsState(c.font0, c.data)
            /\ (c.font0 = -1 /\ c.data = <<161, 64>>) =>
                  c.cdata = EncodeRune(big5map(0))

\* The lead byte 0xA1 came in one call and the trail byte 0x40 in the next:
\* the second call emitted U+4E2D, the rune at index 0, and left the decoder
\* Idle.
C10_Witness ==
    /\ Len(calls) = 1
    /\ calls[1].kind = "big5"
    /\ calls[1].font0 = 161
    /\ calls[1].data = <<64>>
    /\ calls[1].n = 1
    /\ calls[1].cdata = EncodeRune(20013)
    /\ calls[1].font1 = -1
    /\ calls[1].reads = {0}

\* C11 as stated: a call of the Big5 decoder that starts Idle and is given
\* the control byte 0x1A alone consumes it, emits a newline and stays Idle.
C11_ControlNewline ==
    \A i \in 1..Len(calls) :
        LET c == calls[i] IN
        (c.kind = "big5" /\ c.font0 = -1 /\ c.data = <<26>>) =>
            /\ c.n = 1
            /\ c.cdata = <<10>>
            /\ c.font1 = -1

----------------------------------------------------------------------------
(* The registry: classes, charsets and the catalog file charsets.json.     *)
(* A name is a sequence of characters; the characters of the model are     *)
(* 'A', 'a', 'b', '_' and '-'.  The package exists in two versions that    *)
(* cannot be linked together: the Translator API, whose catalog is the     *)
(* map charsets of *Charset, and the older Converter API.                  *)

\* most registerClass and Register calls of a run
MaxReg == 2

\* normalizedChar without the case '_': return '-'
normalizedChar_keepsUnderscore(c) ==
    IF c >= 65 /\ c <= 90 THEN c - 65 + 97 ELSE c

\* normalizedChar
normalizedChar(c) ==
    IF c >= 65 /\ c <= 90 THEN c - 65 + 97
    ELSE IF c = 95 THEN 45
    ELSE c

\* NormalizedName: strings.Map(normalizedChar, s)
RECURSIVE NormalizedName(_)
NormalizedName(s) ==
    IF Len(s) = 0 THEN <<>>
    ELSE <<normalizedChar(Head(s))>> \o NormalizedName(Tail(s))

\* The names callers pass: "A", "a", "b", "A_", "a-"
RawNames == {<<65>>, <<97>>, <<98>>, <<65, 95>>, <<97, 45>>}

\* A nil func value, and the closure that calls the class's factory f
\* with arg
NilFunc == [f |-> "nil", arg |-> ""]

Closure(f, arg) == IF f = "nil" THEN NilFunc ELSE [f |-> f, arg |-> arg]

\* classes after the init functions of the package have run
InitClasses ==
    [c \in {"cp", "utf8"} |->
        IF c = "cp" THEN [from |-> "fromCodePage", to |-> "toCodePage"]
        ELSE [from |-> "toUTF8", to |-> "toUTF8"]]

\* registerClass
registerClass(cls, charset, from, to) ==
    Put(cls, charset, [from |-> from, to |-> to])

\* The loop over cs.Aliases of Register, from index i on
RECURSIVE registerAliases(_, _, _, _)
registerAliases(m, cs, i, override) ==
    IF i > Len(cs.Aliases) THEN m
    ELSE LET alias == cs.Aliases[i]
         IN  registerAliases(
                 IF alias \notin DOMAIN m \/ override THEN Put(m, alias, cs)
                 ELSE m,
                 cs, i + 1, override)

\* The names of a list, each normalised
RECURSIVE NormalizedNames(_)
NormalizedNames(l) ==
    IF Len(l) = 0 THEN <<>>
    ELSE <<NormalizedName(Head(l))>> \o NormalizedNames(Tail(l))

\* (*Charset).Register on the map m: the map afterwards.  The map holds
\* pointers, so every key of cs sees the Name and the Aliases Register has
\* normalised in place.
charsetRegister(m, cs, override) ==
    LET name == NormalizedName(cs.Name)
        cs1  == [cs EXCEPT !.Name = name,
                           !.Aliases = NormalizedNames(cs.Aliases)]
    IN  IF ~override /\ name \in DOMAIN m THEN m
        ELSE registerAliases(Put(m, name, cs1), cs1, 1, override)

\* The loop of readCharsets over the entries, in the order the map range
\* yields them; the k-th entry's Charset is the object 100 + k.
RECURSIVE readEntries(_, _, _, _)
readEntries(m, cls, order, k) ==
    IF k > Len(order) THEN m
    ELSE LET e == order[k]
         IN  IF e.Class \notin DOMAIN cls
             THEN readEntries(m, cls, order, k + 1)
             ELSE LET class == cls[e.Class]
                      cs == [id      |-> 100 + k,
                             Name    |-> NormalizedName(e.name),
                             Aliases |-> e.Aliases,
                             from    |-> Closure(class.from, e.Arg),
                             to      |-> Closure(class.to, e.Arg)]
                  IN  readEntries(charsetRegister(m, cs, FALSE), cls, order,
                                  k + 1)

\* readCharsets: charsets afterwards.  file is [open, err, entries]: could
\* charsets.json be read, did json.Unmarshal return an error, and the
\* entries it left in the map (none after a syntax error, the well-typed
\* ones after a type error).
readCharsets(m, cls, file, order) ==
    IF ~file.open THEN m ELSE readEntries(m, cls, order, 1)

\* The orders in which a range over the set of entries es can yield them
Orders(es) ==
    {o \in [1..Cardinality(es) -> es] : {o[i] : i \in DOMAIN o} = es}

----------------------------------------------------------------------------
(* Data files and the cache *)

\* most reads of data files in a run
MaxReads == 1

\* The data files code pages are made from: those of CodePages, "short"
\* and "long" with 255 and 257 runes, and "missing", which cannot be opened.
DataFiles == CodePages \cup {"short", "long", "missing"}

\* len(runes) of the file's text
runeCount(arg) ==
    IF arg = "short" THEN 255 ELSE IF arg = "long" THEN 257 ELSE 256

\* does readFile(arg) return an error?
readFileFails(arg) == arg = "missing"

\* The nil interface value cache returns with an error
NilValue == [type |-> "nil", arg |-> ""]

cpKeyFrom(arg) == [type |-> "cpKeyFrom", arg |-> arg]

cpKeyTo(arg) == [type |-> "cpKeyTo", arg |-> arg]

\* The function handed to cache without the test of the rune count
loadCodePage_anyCount(key) ==
    IF readFileFails(key.arg) THEN [err |-> TRUE, val |-> NilValue]
    ELSE [err |-> FALSE, val |-> key]

\* The function f that fromCodePage and toCodePage hand to cache, once
\* readFile has returned: [err, val].  val stands for the table of 256
\* runes (cpKeyFrom) or the map built from 256 runes (cpKeyTo).
loadCodePage(key) ==
    IF readFileFails(key.arg) THEN [err |-> TRUE, val |-> NilValue]
    ELSE IF runeCount(key.arg) # 256 THEN [err |-> TRUE, val |-> NilValue]
    ELSE [err |-> FALSE, val |-> key]

\* reads with one more read of file arg
CountRead(reads, arg) ==
    Put(reads, arg, IF arg \in DOMAIN reads THEN reads[arg] + 1 ELSE 1)

TotalReads(reads) ==
    LET RECURSIVE sum(_)
        sum(S) == IF S = {} THEN 0
                  ELSE LET a == CHOOSE x \in S : TRUE
                       IN  reads[a] + sum(S \ {a})
    IN  sum(DOMAIN reads)

\* cache(key, f) run by one thread from Lock to Unlock:
\* [store, reads, err, val]
cache(store, reads, key) ==
    IF key \in DOMAIN store
    THEN [store |-> store, reads |-> reads, err |-> FALSE, val |-> store[key]]
    ELSE LET loaded(x) ==
                 [store |-> IF x.err THEN store ELSE Put(store, key, x.val),
                  reads |-> CountRead(reads, key.arg),
                  err   |-> x.err,
                  val   |-> x.val]
         IN  loaded(loadCodePage(key))

\* The Translator a factory function returns: [res, tr, store, reads], res
\* being "ok" or "error".  fromCodePage and toCodePage go through cache;
\* toUTF8 needs no file; the Big5 factory of the Translator API is not in
\* src/ and is taken to succeed.
callFactory(fn, store, reads) ==
    LET made(kind, key, c) ==
            [res   |-> IF c.err THEN "error" ELSE "ok",
             tr    |-> IF c.err THEN NoTranslator
                       ELSE NewTranslator(kind, key.arg),
             store |-> c.store,
             reads |-> c.reads]
        plain(kind, arg) ==
            [res |-> "ok", tr |-> NewTranslator(kind, arg),
             store |-> store, reads |-> reads]
    IN  CASE fn.f = "fromCodePage" ->
                made("cpFrom", cpKeyFrom(fn.arg),
                     cache(store, reads, cpKeyFrom(fn.arg)))
          [] fn.f = "toCodePage" ->
                made("cpTo", cpKeyTo(fn.arg),
                     cache(store, reads, cpKeyTo(fn.arg)))
          [] fn.f = "toUTF8" -> plain("utf8", "")
          [] fn.f = "fromBig5" -> plain("big5", "big5.dat")
          [] fn.f = "iconv" -> plain("iconv", fn.arg)

----------------------------------------------------------------------------
(* Calls on the registry.  readCharsetsOnce.Do makes the load one step:    *)
(* a caller that arrives while readCharsets runs waits until it is done.   *)

\* The entries charsets.json can hold: "A" with alias "A_" (cp, latin1);
\* "b" (cp, a file of 255 runes); "b" with alias "A" (big5); "A_" (a class
\* that is not registered); "a" with alias "b" (utf8); "a-" (cp, a file of
\* 257 runes).
CatalogEntries ==
    { [name |-> <<65>>, Aliases |-> << <<65, 95>> >>, Class |-> "cp", Arg |-> "latin1"],
      [name |-> <<98>>, Aliases |-> <<>>, Class |-> "cp", Arg |-> "short"],
      [name |-> <<98>>, Aliases |-> << <<65>> >>, Class |-> "big5", Arg |-> ""],
      [name |-> <<65, 95>>, Aliases |-> <<>>, Class |-> "nosuch", Arg |-> ""],
      [name |-> <<97>>, Aliases |-> << <<98>> >>, Class |-> "utf8", Arg |-> ""],
      [name |-> <<97, 45>>, Aliases |-> <<>>, Class |-> "cp", Arg |-> "long"] }

\* The contents of the charsets.json files of the model: no entry, one
\* entry, or the entries "A" and "a-", whose alias and name collide, so
\* that the order of the range decides which of them is registered.
EntrySets ==
    {{}} \cup {{e} : e \in CatalogEntries}
         \cup {{e \in CatalogEntries : e.Arg \in {"latin1", "long"}}}

NoCatalog == [open |-> FALSE, err |-> FALSE, entries |-> {}]

\* What readCharsets can find: no file; a file json.Unmarshal decodes; a
\* file it reports an error for, having decoded nothing (a syntax error)
\* or the entries that were well-typed (a type error).
CatalogFiles ==
    {NoCatalog}
    \cup {[open |-> TRUE, err |-> e, entries |-> es] :
             e \in BOOLEAN, es \in EntrySets}

\* The registerClass calls of the model beyond those of init: a decode-only
\* class "big5", and "utf8" registered again as decode-only.
ClassRegs ==
    { [name |-> "big5", from |-> "fromBig5", to |-> "nil"],
      [name |-> "utf8", from |-> "toUTF8", to |-> "nil"] }

\* The Charsets callers register, as iconv's init does: names "A" and
\* "a-", without an alias or with the alias "A_".
RegNames == {<<65>>, <<97, 45>>}

AliasLists == {<<>>, << <<65, 95>> >>}

LastRec(op, name, override, res, id, out, t) ==
    [op |-> op, name |-> name, override |-> override, res |-> res,
     id |-> id, out |-> out, tr |-> t]

\* charsets once readCharsetsOnce.Do(readCharsets) has returned
onceLoaded(order) ==
    IF readCharsetsOnce THEN charsets
    ELSE readCharsets(charsets, classes, catalog, order)

\* A call of a nil func value panics: the process is gone.
Running(version) == api = version /\ last.res # "panic"

\* The Converter API keeps its own catalog.
OldUnchanged == UNCHANGED <<api, oldCatalog, oldCharsets, oldOnce>>

RegisterClass(c) ==
    /\ Running("Translator")
    /\ nreg < MaxReg
    /\ classes' = registerClass(classes, c.name, c.from, c.to)
    /\ nreg' = nreg + 1
    /\ last' = LastRec("registerClass", <<>>, FALSE, "ok", 0, {}, NoTranslator)
    /\ UNCHANGED <<charsets, readCharsetsOnce, catalog, loads>>
    /\ OldUnchanged
    /\ UNCHANGED <<streamVars, cacheVars>>

Register(name, aliases, override) ==
    /\ Running("Translator")
    /\ nreg < MaxReg
    /\ charsets' = charsetRegister(
                       charsets,
                       [id |-> nreg + 1, Name |-> name, Aliases |-> aliases,
                        from |-> Closure("iconv", name),
                        to |-> Closure("iconv", name)],
                       override)
    /\ nreg' = nreg + 1
    /\ last' = LastRec("Register", NormalizedName(name), override, "ok",
                       nreg + 1, {}, NoTranslator)
    /\ UNCHANGED <<classes, readCharsetsOnce, catalog, loads>>
    /\ OldUnchanged
    /\ UNCHANGED <<streamVars, cacheVars>>

\* readCharsetsOnce.Do(readCharsets) as part of a call
DoOnce(m) ==
    /\ charsets' = m
    /\ readCharsetsOnce' = TRUE
    /\ loads' = IF readCharsetsOnce THEN loads ELSE loads + 1

Info(name) ==
    /\ Running("Translator")
    /\ \E order \in Orders(catalog.entries) :
          LET returns(m) ==
                  /\ DoOnce(m)
                  /\ last' = IF NormalizedName(name) \in DOMAIN m
                             THEN LastRec("Info", name, FALSE, "ok",
                                          m[NormalizedName(name)].id, {},
                                          NoTranslator)
                             ELSE LastRec("Info", name, FALSE, "nil", 0, {},
                                          NoTranslator)
          IN  returns(onceLoaded(order))
    /\ UNCHANGED <<classes, catalog, nreg>>
    /\ OldUnchanged
    /\ UNCHANGED <<streamVars, cacheVars>>

\* NewReader (dir = "from") and NewWriter (dir = "to"): Info, then the call
\* of cs.TranslatorFrom or cs.TranslatorTo, a nil func value included, then
\* the adapter around the Translator.
newAdapter(op, dir, name) ==
    /\ Running("Translator")
    /\ TotalReads(fileReads) < MaxReads
    /\ \E order \in Orders(catalog.entries) :
          LET made(cs, x) ==
                  /\ last' = LastRec(op, name, FALSE, x.res, cs.id, {}, x.tr)
                  /\ cacheStore' = x.store
                  /\ fileReads' = x.reads
              found(cs) ==
                  LET fn == IF dir = "from" THEN cs.from ELSE cs.to
                  IN  IF fn = NilFunc
                      THEN /\ last' = LastRec(op, name, FALSE, "panic", cs.id,
                                              {}, NoTranslator)
                           /\ UNCHANGED <<cacheStore, fileReads>>
                      ELSE made(cs, callFactory(fn, cacheStore, fileReads))
              returns(m) ==
                  /\ DoOnce(m)
                  /\ IF NormalizedName(name) \in DOMAIN m
                     THEN found(m[NormalizedName(name)])
                     ELSE /\ last' = LastRec(op, name, FALSE, "NotFound", 0,
                                             {}, NoTranslator)
                          /\ UNCHANGED <<cacheStore, fileReads>>
          IN  returns(onceLoaded(order))
    /\ UNCHANGED <<classes, catalog, nreg, cacheMutex, th>>
    /\ OldUnchanged
    /\ UNCHANGED streamVars

NewReader(name) == newAdapter("NewReader", "from", name)

NewWriter(name) == newAdapter("NewWriter", "to", name)

Names ==
    /\ Running("Translator")
    /\ \E order \in Orders(catalog.entries) :
          LET returns(m) ==
                  /\ DoOnce(m)
                  /\ last' = LastRec("Names", <<>>, FALSE, "ok", 0,
                                     {name \in DOMAIN m :
                                         m[m[name].Name] = m[name]},
                                     NoTranslator)
          IN  returns(onceLoaded(order))
    /\ UNCHANGED <<classes, catalog, nreg>>
    /\ OldUnchanged
    /\ UNCHANGED <<streamVars, cacheVars>>

----------------------------------------------------------------------------
(* The Converter API: its catalog maps a name to an info, an alias or a    *)
(* class with its argument, and findClass resolves a name on every call.   *)

toLower(c) == IF c >= 65 /\ c <= 90 THEN c - 65 + 97 ELSE c

\* strings.Map(toLower, name)
RECURSIVE lowerName(_)
lowerName(s) ==
    IF Len(s) = 0 THEN <<>> ELSE <<toLower(Head(s))>> \o lowerName(Tail(s))

\* classes of the Converter API
oldClasses ==
    [c \in {"cp", "big5", "utf16", "utf8"} |->
        CASE c = "cp"    -> [fromUTF8 |-> "codePageFromUTF8", toUTF8 |-> "codepageToUTF8"]
          [] c = "big5"  -> [fromUTF8 |-> "nil", toUTF8 |-> "big5ToUTF8"]
          [] c = "utf16" -> [fromUTF8 |-> "utf16FromUTF8", toUTF8 |-> "utf16ToUTF8"]
          [] c = "utf8"  -> [fromUTF8 |-> "utf8ToUTF8", toUTF8 |-> "utf8ToUTF8"]]

\* The zero info
NoInfo == [Alias |-> <<>>, Class |-> "", Arg |-> ""]

\* Two charsets.json of the Converter API.  In the first "a" is the code
\* page latin1, "b" an alias of "a", "a_" an alias of "b", and "a-" names a
\* class that does not exist; in the second "a" is Big5, "b" an alias of
\* "a", and "a-" a code page whose file holds 255 runes.
OldInfos ==
    [n \in {<<97>>, <<98>>, <<97, 95>>, <<97, 45>>} |->
        CASE n = <<97>>     -> [Alias |-> <<>>, Class |-> "cp", Arg |-> "latin1"]
          [] n = <<98>>     -> [Alias |-> <<97>>, Class |-> "", Arg |-> ""]
          [] n = <<97, 95>> -> [Alias |-> <<98>>, Class |-> "", Arg |-> ""]
          [] n = <<97, 45>> -> [Alias |-> <<>>, Class |-> "nosuch", Arg |-> ""]]

OldInfosBig5 ==
    [n \in {<<97>>, <<98>>, <<97, 45>>} |->
        CASE n = <<97>>     -> [Alias |-> <<>>, Class |-> "big5", Arg |-> ""]
          [] n = <<98>>     -> [Alias |-> <<97>>, Class |-> "", Arg |-> ""]
          [] n = <<97, 45>> -> [Alias |-> <<>>, Class |-> "cp", Arg |-> "short"]]

NoOldCatalog == [open |-> FALSE, err |-> FALSE, infos |-> EmptyMap]

OldCatalogFiles ==
    {NoOldCatalog} \cup {[open |-> TRUE, err |-> FALSE, infos |-> i] :
                             i \in {OldInfos, OldInfosBig5}}

\* readCharsets of the Converter API behind its readCharsetsOnce
oldLoaded ==
    IF oldOnce THEN oldCharsets
    ELSE IF oldCatalog.open THEN oldCatalog.infos ELSE oldCharsets

\* One iteration of the loop of findClass: [cs, found, lookup, stop]
findStep(m, lookup) ==
    IF lookup \in DOMAIN m
    THEN [cs |-> m[lookup], found |-> TRUE,
          lookup |-> IF m[lookup].Alias = <<>> THEN lookup ELSE m[lookup].Alias,
          stop |-> m[lookup].Alias = <<>>]
    ELSE [cs |-> NoInfo, found |-> FALSE, lookup |-> lookup, stop |-> FALSE]

\* findClass: [err, class, arg]; err is "nil", "NotFound" (no such
\* character set) or "BadClass" (bad converter found).
findClass(m, name) ==
    LET noClass == [fromUTF8 |-> "nil", toUTF8 |-> "nil"]
        resolved(x) ==
            IF ~x.found \/ x.cs.Alias # <<>>
            THEN [err |-> "NotFound", class |-> noClass, arg |-> ""]
            ELSE IF x.cs.Class \notin DOMAIN oldClasses
            THEN [err |-> "BadClass", class |-> noClass, arg |-> ""]
            ELSE [err |-> "nil", class |-> oldClasses[x.cs.Class],
                  arg |-> x.cs.Arg]
        \* allow one level of alias redirection
        second(x) == resolved(IF x.stop THEN x ELSE findStep(m, x.lookup))
    IN  second(findStep(m, lowerName(name)))

\* ToUTF8ConverterFunc (dir = "toUTF8") and ToCharsetConverterFunc
\* (dir = "fromUTF8"): the result is "ok" or names the error.
converterFunc(op, dir, name) ==
    /\ Running("Converter")
    /\ LET returns(c) ==
               LET fn == IF dir = "toUTF8" THEN c.class.toUTF8
                         ELSE c.class.fromUTF8
                   res == IF c.err # "nil" THEN c.err
                          ELSE IF fn = "nil" THEN "Unsupported"
                          ELSE IF fn \in {"codePageFromUTF8", "codepageToUTF8"}
                                  /\ (readFileFails(c.arg)
                                      \/ runeCount(c.arg) # 256)
                          THEN "error"
                          ELSE "ok"
               IN  last' = LastRec(op, name, FALSE, res, 0, {}, NoTranslator)
       IN  returns(findClass(oldLoaded, name))
    /\ oldCharsets' = oldLoaded
    /\ oldOnce' = TRUE
    /\ UNCHANGED <<api, classes, charsets, readCharsetsOnce, catalog, loads,
                   nreg, oldCatalog>>
    /\ UNCHANGED <<streamVars, cacheVars>>

ToUTF8ConverterFunc(name) == converterFunc("ToUTF8ConverterFunc", "toUTF8", name)

ToCharsetConverterFunc(name) ==
    converterFunc("ToCharsetConverterFunc", "fromUTF8", name)

----------------------------------------------------------------------------
(* A process that registers classes and charsets and looks names up *)

InitRegistry ==
    /\ StreamUnused
    /\ CacheUnused
    /\ \/ /\ api = "Translator"
          /\ classes = InitClasses
          /\ catalog \in CatalogFiles
          /\ oldCatalog = NoOldCatalog
       \/ /\ api = "Converter"
          /\ classes = EmptyMap
          /\ catalog = NoCatalog
          /\ oldCatalog \in OldCatalogFiles
    /\ charsets = EmptyMap
    /\ readCharsetsOnce = FALSE
    /\ loads = 0
    /\ nreg = 0
    /\ last = NoLast
    /\ oldCharsets = EmptyMap
    /\ oldOnce = FALSE

NextRegistry ==
    \/ \E c \in ClassRegs : RegisterClass(c)
    \/ \E name \in RegNames, aliases \in AliasLists, override \in BOOLEAN :
          Register(name, aliases, override)
    \/ \E name \in RawNames : Info(name)
    \/ \E name \in RawNames : NewReader(name)
    \/ \E name \in RawNames : NewWriter(name)
    \/ Names
    \/ \E name \in RawNames : ToUTF8ConverterFunc(name)
    \/ \E name \in RawNames : ToCharsetConverterFunc(name)

SpecRegistry == InitRegistry /\ [][NextRegistry]_vars

----------------------------------------------------------------------------
(* Properties of the registry *)

\* The Charset a Translator API call has looked up: the call leaves
\* charsets as it found it once loaded.
Looked == charsets[NormalizedName(last.name)]

LookedUp == api = "Translator" /\ NormalizedName(last.name) \in DOMAIN charsets

\* What findClass of the Converter API has resolved the name of the last
\* call to
OldLooked == findClass(oldCharsets, last.name)

\* C12: a request for an encode Translator (NewWriter, or
\* ToCharsetConverterFunc in the Converter API) for a charset whose class has
\* no encode factory returns an error: it neither succeeds nor panics.
C12_EncodeUnsupportedIsError ==
    /\ (/\ last.op = "NewWriter"
        /\ LookedUp
        /\ Looked.to = NilFunc) => last.res = "error"
    /\ (/\ last.op = "ToCharsetConverterFunc"
        /\ OldLooked.err = "nil"
        /\ OldLooked.class.fromUTF8 = "nil") => last.res = "Unsupported"

\* Did the one load of charsets.json fail: the file could not be read, or
\* json.Unmarshal returned an error?
LoadFailed == readCharsetsOnce /\ (~catalog.open \/ catalog.err)

\* The Charsets readCharsets has made, as opposed to those callers register
FromCatalog(cs) == cs.id > 100

\* C14: charsets.json is loaded at most once over any sequence of Info,
\* Names, NewReader and NewWriter calls; when the load fails the catalog
\* stays empty: no name is resolved to a Charset made from the file.
C14_LoadOnceFailEmpty ==
    /\ loads <= 1
    /\ LoadFailed => \A k \in DOMAIN charsets : ~FromCatalog(charsets[k])
    /\ (LoadFailed /\ last.op \in {"Info", "NewReader", "NewWriter"}
           /\ last.id > 100) => last.res \in {"nil", "NotFound"}

\* Does charsets.json hold an entry under the normalised name n whose
\* class is not registered?
BadEntry(n) ==
    /\ catalog.open
    /\ \E e \in catalog.entries :
          NormalizedName(e.name) = n /\ e.Class \notin DOMAIN classes

\* C15: resolving a name fails with NotFound when no descriptor exists
\* under the name, and with the distinct BadClass error when the catalog
\* holds a descriptor under the name that names an unregistered class.
C15_NotFoundVsBadClass ==
    /\ (/\ api = "Translator"
        /\ last.op \in {"NewReader", "NewWriter"}
        /\ NormalizedName(last.name) \notin DOMAIN charsets)
       => last.res = IF BadEntry(NormalizedName(last.name)) THEN "BadClass"
                     ELSE "NotFound"
    /\ (/\ last.op \in {"ToUTF8ConverterFunc", "ToCharsetConverterFunc"}
        /\ lowerName(last.name) \notin DOMAIN oldCharsets)
       => last.res = "NotFound"
    /\ (/\ last.op \in {"ToUTF8ConverterFunc", "ToCharsetConverterFunc"}
        /\ lowerName(last.name) \in DOMAIN oldCharsets
        /\ oldCharsets[lowerName(last.name)].Alias = <<>>
        /\ oldCharsets[lowerName(last.name)].Class \notin DOMAIN oldClasses)
       => last.res = "BadClass"

\* C16: a registration replaces an existing association only when it is
\* marked to override: registerClass, which has no such mark, Register
\* without override, and the load of charsets.json (which registers
\* without override) leave every association that exists as it is.
C16_OverrideOnlyOnRequest ==
    [][/\ last'.op = "registerClass"
          => \A c \in DOMAIN classes : classes'[c] = classes[c]
       /\ (last'.op = "Register" /\ ~last'.override)
          => \A k \in DOMAIN charsets : charsets'[k] = charsets[k]
       /\ (~readCharsetsOnce /\ readCharsetsOnce')
          => \A k \in DOMAIN charsets : charsets'[k] = charsets[k]]_vars

\* C17: the Charset found under a key is the Charset found under its own
\* canonical name, whatever registrations and load came before; and in the
\* Converter API a name whose alias is itself an alias does not resolve.
C17_AliasInvariant ==
    /\ \A k \in DOMAIN charsets :
          /\ charsets[k].Name \in DOMAIN charsets
          /\ charsets[charsets[k].Name] = charsets[k]
    /\ (/\ last.op \in {"ToUTF8ConverterFunc", "ToCharsetConverterFunc"}
        /\ lowerName(last.name) \in DOMAIN oldCharsets
        /\ oldCharsets[lowerName(last.name)].Alias \in DOMAIN oldCharsets
        /\ oldCharsets[oldCharsets[lowerName(last.name)].Alias].Alias # <<>>)
       => last.res = "NotFound"

\* Two characters that differ at most in letter case or as '_' and '-'
SameChar(c, d) ==
    \/ c = d
    \/ c \in 65..90 /\ d = c + 32
    \/ d \in 65..90 /\ c = d + 32
    \/ {c, d} = {95, 45}

\* Two names that differ at most in letter case and in '_' versus '-'
Variant(a, b) ==
    /\ Len(a) = Len(b)
    /\ \A i \in 1..Len(a) : SameChar(a[i], b[i])

\* C18: lookup is insensitive to letter case and to '_' versus '-'.
\* NormalizedName is idempotent and gives variants the same form; charsets
\* holds one key per form; and a lookup (Info, NewReader, NewWriter) finds
\* a Charset exactly when a key is a variant of the name asked for, and
\* then the Charset under that key, so every registered name and alias is
\* found under each of its variants.
C18_NameNormalization ==
    /\ \A n \in RawNames :
          NormalizedName(NormalizedName(n)) = NormalizedName(n)
    /\ \A n1, n2 \in RawNames :
          Variant(n1, n2) => NormalizedName(n1) = NormalizedName(n2)
    /\ \A k1, k2 \in DOMAIN charsets : Variant(k1, k2) => k1 = k2
    /\ \A k \in DOMAIN charsets :
          /\ \E n \in DOMAIN charsets :
                Variant(n, charsets[k].Name) /\ charsets[n].Name = charsets[k].Name
          /\ \A i \in 1..Len(charsets[k].Aliases) :
                \E n \in DOMAIN charsets : Variant(n, charsets[k].Aliases[i])
    /\ last.op = "Info"
       => /\ last.res = "ok" <=> \E k \in DOMAIN charsets : Variant(k, last.name)
          /\ \A k \in DOMAIN charsets :
                Variant(k, last.name) => last.id = charsets[k].id
    /\ last.op \in {"NewReader", "NewWriter"}
       => /\ last.res = "NotFound"
             <=> ~\E k \in DOMAIN charsets : Variant(k, last.name)
          /\ \A k \in DOMAIN charsets :
                Variant(k, last.name) => last.id = charsets[k].id

\* Info("A_") has found the Charset a caller registered under "a-" or with
\* the alias "A_".
C18_Witness ==
    /\ last.op = "Info"
    /\ last.name = <<65, 95>>
    /\ last.res = "ok"
    /\ last.id \in 1..MaxReg

\* C19: Names returns the canonical names of the registered Charsets and
\* nothing else: the Name of every Charset in charsets is in the result,
\* and no name in the result is a mere alias of its Charset.
C19_NamesCanonical ==
    last.op = "Names"
    => /\ \A k \in DOMAIN charsets : charsets[k].Name \in last.out
       /\ \A n \in last.out : n \in DOMAIN charsets /\ charsets[n].Name = n

\* The factory the last NewReader or NewWriter has called
LookedFactory == IF last.op = "NewReader" THEN Looked.from ELSE Looked.to

\* Is fn a code-page factory whose data file does not hold 256 runes?
BadTable(fn) ==
    /\ fn.f \in {"fromCodePage", "toCodePage"}
    /\ runeCount(fn.arg) # 256

\* C20: a code-page data file that does not hold exactly 256 runes makes
\* NewReader and NewWriter return an error: no Translator is made, no
\* table of the file is ever in the cache, and no stream has been touched.
C20_BadTableFailsFast ==
    /\ \A key \in DOMAIN cacheStore : runeCount(key.arg) = 256
    /\ (/\ last.op \in {"NewReader", "NewWriter"}
        /\ LookedUp
        /\ BadTable(LookedFactory))
       => /\ last.res = "error"
          /\ last.tr = NoTranslator
          /\ StreamUnused

\* NewWriter and NewReader have each been refused for a file of 257 or of
\* 255 runes.
C20_Witness ==
    /\ last.op \in {"NewReader", "NewWriter"}
    /\ LookedUp
    /\ BadTable(LookedFactory)
    /\ fileReads # EmptyMap

----------------------------------------------------------------------------
(* Threads that call fromCodePage and toCodePage at the same time.  Each   *)
(* thread makes one call; "lock", "lookup", "load", "store", "unlock" and  *)
(* "done" are its positions in cache.                                      *)

\* number of threads
MaxThreads == 2

Threads == 1..MaxThreads

\* The keys the threads ask for: a good file, a file of 255 runes, a file
\* that cannot be opened, in both directions.
CacheKeys ==
    {cpKeyFrom(a) : a \in {"latin1", "short", "missing"}}
    \cup {cpKeyTo(a) : a \in {"latin1", "short", "missing"}}

ThreadAt(t, pc) == th[t].pc = pc

Goto(t, pc) == th' = [th EXCEPT ![t].pc = pc]

RestUnchanged == UNCHANGED <<streamVars, registryVars>>

\* cacheMutex.Lock()
cacheLock(t) ==
    /\ ThreadAt(t, "lock")
    /\ cacheMutex = 0
    /\ cacheMutex' = t
    /\ Goto(t, "lookup")
    /\ UNCHANGED <<cacheStore, fileReads>>
    /\ RestUnchanged

\* if x := cacheStore[key]; x != nil { return x, nil }
cacheLookup(t) ==
    /\ ThreadAt(t, "lookup")
    /\ th' = IF th[t].key \in DOMAIN cacheStore
             THEN [th EXCEPT ![t].pc = "unlock",
                             ![t].val = cacheStore[th[t].key]]
             ELSE [th EXCEPT ![t].pc = "load"]
    /\ UNCHANGED <<cacheStore, cacheMutex, fileReads>>
    /\ RestUnchanged

\* x, err := f(); if err != nil { return nil, err }
cacheLoad(t) ==
    /\ ThreadAt(t, "load")
    /\ LET loaded(x) ==
               th' = IF x.err
                     THEN [th EXCEPT ![t].pc = "unlock", ![t].err = TRUE]
                     ELSE [th EXCEPT ![t].pc = "store", ![t].val = x.val]
       IN  loaded(loadCodePage(th[t].key))
    /\ fileReads' = CountRead(fileReads, th[t].key.arg)
    /\ UNCHANGED <<cacheStore, cacheMutex>>
    /\ RestUnchanged

\* cacheStore[key] = x; return x, err
cachePut(t) ==
    /\ ThreadAt(t, "store")
    /\ cacheStore' = Put(cacheStore, th[t].key, th[t].val)
    /\ Goto(t, "unlock")
    /\ UNCHANGED <<cacheMutex, fileReads>>
    /\ RestUnchanged

\* The deferred cacheMutex.Unlock(), and the return to the caller
cacheUnlock(t) ==
    /\ ThreadAt(t, "unlock")
    /\ cacheMutex' = 0
    /\ Goto(t, "done")
    /\ UNCHANGED <<cacheStore, fileReads>>
    /\ RestUnchanged

InitCache ==
    /\ StreamUnused
    /\ RegistryUnused
    /\ cacheStore = EmptyMap
    /\ cacheMutex = 0
    /\ fileReads = EmptyMap
    /\ th \in [Threads -> {[key |-> k, pc |-> "lock", err |-> FALSE,
                            val |-> NilValue] : k \in CacheKeys}]

NextCache ==
    \/ \E t \in Threads : cacheLock(t)
    \/ \E t \in Threads : cacheLookup(t)
    \/ \E t \in Threads : cacheLoad(t)
    \/ \E t \in Threads : cachePut(t)
    \/ \E t \in Threads : cacheUnlock(t)

SpecCache == InitCache /\ [][NextCache]_vars

\* C13: however the threads interleave, a data file is read at most once,
\* and once all threads that ask for a file have returned it has been read
\* exactly once; threads that ask for the same key get the same table.
C13_ReadOnce ==
    /\ \A a \in DOMAIN fileReads : fileReads[a] <= 1
    /\ \A t \in Threads : ThreadAt(t, "done") => th[t].key.arg \in DOMAIN fileReads
    /\ \A t, u \in Threads :
          (ThreadAt(t, "done") /\ ThreadAt(u, "done") /\ th[t].key = th[u].key)
          => (th[t].val = th[u].val /\ th[t].err = th[u].err)

----------------------------------------------------------------------------
(* A reader whose caller passes destination buffers of any length, the     *)
(* empty one included, over a stateless Translator, a stateful one, and    *)
(* iconv's, which holds back an incomplete sequence as toUTF8 does and can *)
(* leave bytes unconsumed at the end of the stream.                        *)

\* The destination buffer sizes of the caller: len(buf) = 0 as well
ReadLens == {0} \cup BufLens

IconvTranslator == NewTranslator("iconv", "UTF-8")

InitReadAny ==
    /\ tr \in {NewTranslator("cpFrom", "latin1"),
               NewTranslator("big5", "big5.dat"), IconvTranslator}
    /\ wtr = NoTranslator
    /\ utf8lib \in LibsOf(tr.kind)
    /\ input \in InputsOf(tr.kind)
    /\ mode \in Modes
    /\ pos = 0
    /\ r = NewTranslatingReader
    /\ w = NewTranslatingWriter
    /\ wpos = 0
    /\ sink = <<>>
    /\ delivered = <<>>
    /\ status = "nil"
    /\ pending = <<>>
    /\ produced = <<>>
    /\ calls = <<>>
    /\ RegistryUnused
    /\ CacheUnused

NextReadAny == \E k \in ReadLens : Read(k)

SpecReadAny == InitReadAny /\ [][NextReadAny]_vars

\* The same caller, which keeps calling Read until it gets a status, over the
\* Translators that hold bytes back: toUTF8, which waits for the rest of a
\* rune, and iconv's, which leaves an incomplete sequence unconsumed at the
\* end of the stream as well.
FairInputs ==
    {<<>>, <<65>>, <<195>>, <<65, 195>>, <<195, 169>>, <<65, 195, 169>>,
     <<228, 169>>, <<169, 65>>}

InitReadFair ==
    /\ tr \in {IconvTranslator, NewTranslator("utf8", "")}
    /\ wtr = NoTranslator
    /\ utf8lib \in LibsOf(tr.kind)
    /\ input \in FairInputs
    /\ mode \in Modes
    /\ pos = 0
    /\ r = NewTranslatingReader
    /\ w = NewTranslatingWriter
    /\ wpos = 0
    /\ sink = <<>>
    /\ delivered = <<>>
    /\ status = "nil"
    /\ pending = <<>>
    /\ produced = <<>>
    /\ calls = <<>>
    /\ RegistryUnused
    /\ CacheUnused

SpecReadFair == InitReadFair /\ [][NextReadAny]_vars /\ WF_vars(NextReadAny)

\* The output of a sequence of Translate calls, in the order of the calls
RECURSIVE CallsOutput(_)
CallsOutput(cs) ==
    IF Len(cs) = 0 THEN <<>> ELSE Head(cs).cdata \o CallsOutput(Tail(cs))

\* C21: a Read that finds output pending makes no Translate call; a Read
\* that calls Translate again does so only after a call that produced
\* nothing; and the bytes delivered so far followed by the pending output
\* are, after every Read, what they were before it followed by the output
\* of the Translate calls of that Read: every byte produced is delivered
\* once, in the order of production.
C21_ReaderOrdering ==
    [][/\ Len(r.cdata) > 0 => calls' = <<>>
       /\ \A i \in 1..(Len(calls') - 1) : calls'[i].cdata = <<>>
       /\ delivered' \o r'.cdata
             = (delivered \o r.cdata) \o CallsOutput(calls')]_vars

\* A Read has copied from the pending output without a Translate call, and
\* part of the output of an earlier call is still pending.
C21_Witness ==
    /\ Len(r.cdata) > 0
    /\ Len(delivered) > 1
    /\ calls = <<>>
    /\ status = "nil"

\* The number of bytes a sequence of Translate calls has consumed
RECURSIVE CallsConsumed(_)
CallsConsumed(cs) ==
    IF Len(cs) = 0 THEN 0 ELSE Head(cs).n + CallsConsumed(Tail(cs))

\* C22: a Read returns a status other than nil only when no output is
\* pending and no input is left in rdata, and the status is the one
\* recorded in r.err.  Translate is told eof only once a status is
\* recorded, and in the Read that records it the first call with
\* eof is handed every byte read from the upstream and not yet consumed,
\* the bytes that came with the status included.
C22_StatusAfterDrain ==
    [][/\ status' # "nil"
          => (r'.cdata = <<>> /\ r'.rdata = <<>> /\ r'.err = status')
       /\ \A i \in 1..Len(calls') : calls'[i].eof => r'.err # "nil"
       /\ (r.err = "nil" /\ r'.err # "nil")
          => \E i \in 1..Len(calls') :
                /\ calls'[i].eof
                /\ \A j \in 1..(i - 1) : ~calls'[j].eof
                /\ calls'[i].data
                      = Drop(r.rdata \o SubSeq(input, pos + 1, pos'),
                             CallsConsumed(SubSeq(calls', 1, i - 1)))]_vars

\* The upstream returned its last bytes together with EOF; the reader
\* delivered their translation first and reported EOF in a later Read that
\* made no Translate call.
C22_Witness ==
    /\ mode = "dataerr"
    /\ status = "EOF"
    /\ Len(delivered) > 0
    /\ pos = Len(input)
    /\ calls = <<>>

\* C23: every Read returns, and a caller that keeps reading gets the
\* terminal status after finitely many Read calls, also when the Translator
\* consumes nothing of what it is handed at the end of the stream.
C23_ReaderTerminates == <>(status = "EOF")

\* The Translator was handed bytes with eof and consumed none of them; the
\* reader took them as consumed and returned EOF.
C23_Witness ==
    /\ status = "EOF"
    /\ \E i \in 1..Len(calls) :
          calls[i].eof /\ calls[i].n = 0 /\ Len(calls[i].data) > 0

----------------------------------------------------------------------------
(* The writer's carry-over *)

\* C24: every Write makes one Translate call, which presents the carry-over
\* followed by the new data with eof = FALSE; the output of the call reaches
\* the sink in the same Write; the bytes the call did not consume are the new
\* carry-over; and the Write reports the length of the new data.  So the
\* bytes consumed so far followed by the carry-over are the bytes written.
C24_CarryOver ==
    [][status' = "nil" =>
          /\ Len(calls') = 1
          /\ ~calls'[1].eof
          /\ wpos' > wpos
          /\ calls'[1].data = w.buf \o SubSeq(input, wpos + 1, wpos')
          /\ sink' = sink \o calls'[1].cdata
          /\ w'.buf = Drop(calls'[1].data, calls'[1].n)
          /\ w'.buf = SubSeq(input, wpos' - Len(w'.buf) + 1, wpos')]_vars

\* A Write presented two bytes of a rune, of which the Translator consumed
\* none, after an earlier Write had output forwarded: both are carried over.
C24_Witness ==
    /\ status = "nil"
    /\ sink # <<>>
    /\ Len(calls) = 1
    /\ calls[1].n = 0
    /\ Len(w.buf) = 2
    /\ calls[1].data = w.buf
    /\ wpos = MaxLen

----------------------------------------------------------------------------
(* Close of the writer *)

\* C25 as stated: when Close has returned nil the carry-over is empty and a
\* stateful Translator holds nothing back: a lead byte that was pending in
\* the Big5 decoder has been turned into output, so the sink holds a
\* character for every character of the Big5 stream written.
C25_CloseFlushes ==
    status = "closed" =>
        /\ w.buf = <<>>
        /\ wtr.kind = "big5" =>
              /\ wtr.font = -1
              /\ RuneCount(sink) = Big5Chars(FALSE, input)

----------------------------------------------------------------------------
(* Reads with an empty destination buffer *)

\* C26 as stated: the reader records the end of the stream, and reports it,
\* only after the upstream has returned its terminal status, which the
\* upstream does once all of its bytes are read; a Read with an empty buffer
\* changes neither that nor the bytes the later Reads deliver.
C26_EOFOnlyFromUpstream ==
    /\ r.err # "nil" => pos = Len(input)
    /\ status = "EOF" => (pos = Len(input) /\ r.err = "EOF")

----------------------------------------------------------------------------
(* Writes onto a failing downstream *)

\* C27 as stated: a Write whose downstream Write fails reports 0 bytes and
\* leaves the writer, its carry-over included, exactly as it was before the
\* call, so that writing the same data again neither loses nor duplicates a
\* byte.
C27_FailedWriteKeepsCarry ==
    [][(status' = "nil" /\ wpos' = wpos) => (w' = w /\ sink' = sink)]_vars
====
